---- MODULE Spec2Model ----
(***************************************************************************)
(* Budget-App: the App component (src/src/App.tsx), its persisted budget   *)
(* state, the local-storage cache and the debounced synchronisation with   *)
(* the remote budget_state table.                                          *)
(*                                                                         *)
(* Conventions of the model                                                *)
(*  - Strings that the code inspects character by character (amount        *)
(*    inputs) are sequences of one-character strings; all other strings    *)
(*    are atomic.                                                          *)
(*  - Amounts (amountBaseUsd, typed values, displayed values) are exact    *)
(*    numbers kept in hundredths: 468 stands for 4.68.  NaN stands for     *)
(*    the JavaScript value NaN, JsonNull for a JSON null.                  *)
(*  - One action is one event-loop task of the browser: the handler, the   *)
(*    batched state update, the render and every effect it triggers, up    *)
(*    to the render after which no effect changes the state any more.      *)
(***************************************************************************)
EXTENDS Integers, Sequences, FiniteSets, TLC

(***************************************************************************)
(* Bounds of the exploration.                                              *)
(***************************************************************************)
\* user edits (handler calls that change the budget state) in one run
MaxEdits == 1
\* authentication events (sign-in, sign-out, token refresh) in one run
MaxAuth == 2
\* edits explored in a run without a backend
MaxLocalEdits == 2
\* milliseconds that pass in one Tick
TickMs == 400

(***************************************************************************)
(* Program constants.                                                      *)
(***************************************************************************)
\* window.setTimeout(..., 800)
DebounceMs == 800
\* Number('.') and every arithmetic on it
NaN == -1
\* JSON.stringify writes NaN as null
JsonNull == -2

Users == {"u1", "u2"}
NoSession == "none"
\* two of the twelve entries of monthTabs
monthTabs == {"Jan", "Feb"}
Dashboard == "Dashboard"
Periods == {"monthly", "weekly", "yearly"}
CurrencyCodes == {"USD", "GTQ"}
Locales == {"en", "es"}

\* currencies[].rate, in tenths
Rate(code) == IF code = "GTQ" THEN 78 ELSE 10

\* periodFactor, in quarters
PeriodFactor(p) == IF p = "monthly" THEN 4 ELSE IF p = "weekly" THEN 1 ELSE 48

\* translations[locale][key] for the keys the budget state holds
Translate(loc, key) ==
  IF loc = "es"
  THEN CASE key = "defaultPaycheck" -> "Sueldo"
         [] key = "defaultSideGig" -> "Trabajo extra"
         [] key = "defaultRent" -> "Renta"
         [] key = "defaultUtilities" -> "Servicios"
         [] key = "newIncome" -> "Nuevo ingreso"
         [] key = "newExpense" -> "Nuevo gasto"
         [] key = "newVariable" -> "Nuevo variable"
         [] OTHER -> key
  ELSE CASE key = "defaultPaycheck" -> "Paycheck"
         [] key = "defaultSideGig" -> "Side gig"
         [] key = "defaultRent" -> "Rent"
         [] key = "defaultUtilities" -> "Utilities"
         [] key = "newIncome" -> "New income"
         [] key = "newExpense" -> "New expense"
         [] key = "newVariable" -> "New variable"
         [] OTHER -> key

(***************************************************************************)
(* Text and numbers.                                                       *)
(***************************************************************************)
\* a sequence and a keyed object as explicit values: TLC evaluates
\* [i \in S |-> e] only where it is applied, and again on each application
AsSeq(s) == SubSeq(s, 1, Len(s))
AsObject(f) == f @@ <<>>

DigitChars == <<"0", "1", "2", "3", "4", "5", "6", "7", "8", "9">>

IsDigit(c) == \E i \in 1..10 : DigitChars[i] = c

DigitValue(c) == (CHOOSE i \in 1..10 : DigitChars[i] = c) - 1

RECURSIVE DigitsOf(_)
\* the decimal digits of a natural number
DigitsOf(n) ==
  IF n < 10 THEN <<DigitChars[n + 1]>>
  ELSE Append(DigitsOf(n \div 10), DigitChars[(n % 10) + 1])

RECURSIVE Grouped(_)
\* en-US grouping of a digit string: a comma before every group of three
Grouped(ds) ==
  IF Len(ds) <= 3 THEN ds
  ELSE Grouped(SubSeq(ds, 1, Len(ds) - 3)) \o <<",">> \o SubSeq(ds, Len(ds) - 2, Len(ds))

TwoDigits(n) == <<DigitChars[(n \div 10) + 1], DigitChars[(n % 10) + 1]>>

\* formatNumber of the exact value num/den hundredths (num/(100 den) units):
\* at most two fraction digits, rounded half up, and two fraction digits
\* exactly when the value has a fraction
FormatNumber(num, den) ==
  IF num = NaN THEN <<"N", "a", "N">>
  ELSE LET hasDecimal == (num % (den * 100)) # 0
           cents == (2 * num + den) \div (2 * den)
       IN IF hasDecimal
          THEN Grouped(DigitsOf(cents \div 100)) \o <<".">> \o TwoDigits(cents % 100)
          ELSE Grouped(DigitsOf(cents \div 100))

RECURSIVE StripZeros(_)
StripZeros(s) ==
  IF Len(s) > 0 /\ s[Len(s)] = "0" THEN StripZeros(SubSeq(s, 1, Len(s) - 1)) ELSE s

\* `${value}` of a number given in hundredths
NumberToString(h) ==
  IF h = NaN THEN <<"N", "a", "N">>
  ELSE LET frac == StripZeros(TwoDigits(h % 100))
       IN IF frac = <<>> THEN DigitsOf(h \div 100)
          ELSE DigitsOf(h \div 100) \o <<".">> \o frac

RECURSIVE KeepAmountChars(_)
\* value.replace(/[^0-9.]/g, '')
KeepAmountChars(s) ==
  IF s = <<>> THEN <<>>
  ELSE IF IsDigit(Head(s)) \/ Head(s) = "."
       THEN <<Head(s)>> \o KeepAmountChars(Tail(s))
       ELSE KeepAmountChars(Tail(s))

RECURSIVE DropDots(_)
DropDots(s) ==
  IF s = <<>> THEN <<>>
  ELSE IF Head(s) = "." THEN DropDots(Tail(s))
       ELSE <<Head(s)>> \o DropDots(Tail(s))

\* index of the first "." of s, 0 when there is none
FirstDot(s) ==
  IF \E i \in 1..Len(s) : s[i] = "."
  THEN CHOOSE i \in 1..Len(s) : s[i] = "." /\ \A j \in 1..(i - 1) : s[j] # "."
  ELSE 0

\* sanitizeAmountInput: parts = normalized.split('.'); one part: normalized;
\* otherwise parts[0] + '.' + the remaining parts joined
sanitizeAmountInput(value) ==
  LET normalized == KeepAmountChars(value)
      dot == FirstDot(normalized)
  IN IF dot = 0 THEN normalized
     ELSE SubSeq(normalized, 1, dot) \o DropDots(SubSeq(normalized, dot + 1, Len(normalized)))

RECURSIVE NatOf(_)
NatOf(ds) == IF ds = <<>> THEN 0 ELSE 10 * NatOf(SubSeq(ds, 1, Len(ds) - 1)) + DigitValue(ds[Len(ds)])

\* Number(s) of a sanitised string, in hundredths; fraction digits after the
\* second are below the resolution of the model and are dropped
NumberOf(s) ==
  LET dot == FirstDot(s)
      int == IF dot = 0 THEN s ELSE SubSeq(s, 1, dot - 1)
      frac == IF dot = 0 THEN <<>> ELSE SubSeq(s, dot + 1, Len(s))
      frac2 == SubSeq(frac \o <<"0", "0">>, 1, 2)
  IN IF s = <<>> THEN 0
     ELSE IF int = <<>> /\ frac = <<>> THEN NaN
     ELSE 100 * NatOf(int) + NatOf(frac2)

\* toBaseMonthly as it would be without the period factor
toBaseMonthlyOfMonth(displayValue, code, p) ==
  IF displayValue = NaN THEN NaN
  ELSE (displayValue * 10) \div Rate(code)

\* toBaseMonthly: displayValue / (rate * periodFactor)
toBaseMonthly(displayValue, code, p) ==
  IF displayValue = NaN THEN NaN
  ELSE (displayValue * 40) \div (Rate(code) * PeriodFactor(p))

\* formatDisplayAmount: formatNumber(base * rate * periodFactor)
formatDisplayAmount(base, code, p) ==
  IF base = NaN THEN FormatNumber(NaN, 1)
  ELSE FormatNumber(base * Rate(code) * PeriodFactor(p), 40)

(***************************************************************************)
(* Items, defaults and normalisation.                                      *)
(***************************************************************************)
Item(id, name, base, input) ==
  [id |-> id, name |-> name, amountBaseUsd |-> base, amountInput |-> input]

buildDefaultIncomes(loc) ==
  << Item("income-1", Translate(loc, "defaultPaycheck"), 0, <<"0">>),
     Item("income-2", Translate(loc, "defaultSideGig"), 0, <<"0">>) >>

buildDefaultFixedExpenses(loc) ==
  << Item("expense-1", Translate(loc, "defaultRent"), 0, <<"0">>),
     Item("expense-2", Translate(loc, "defaultUtilities"), 0, <<"0">>) >>

\* a property of a JSON object that is neither absent nor null
HasField(obj, f) == f \in DOMAIN obj

\* obj.amountBaseUsd ?? 0
BaseOrZero(obj) ==
  IF HasField(obj, "amountBaseUsd") /\ obj.amountBaseUsd # JsonNull
  THEN obj.amountBaseUsd ELSE 0

\* normalizeItem; i is the position of the item in its list and stands for
\* the time stamp and random number of a generated id
normalizeItem(item, i) ==
  [id |-> IF HasField(item, "id") THEN item.id ELSE "item-" \o ToString(i),
   name |-> IF HasField(item, "name") THEN item.name ELSE "New item",
   amountBaseUsd |-> BaseOrZero(item),
   amountInput |-> IF HasField(item, "amountInput") THEN item.amountInput
                   ELSE NumberToString(BaseOrZero(item))]

\* items.map((item) => normalizeItem(item))
normalizeItems(items) == AsSeq([i \in 1..Len(items) |-> normalizeItem(items[i], i)])

normalizeBonus(entry) ==
  [amountBaseUsd |-> BaseOrZero(entry),
   amountInput |-> IF HasField(entry, "amountInput") THEN entry.amountInput
                   ELSE NumberToString(BaseOrZero(entry))]

normalizeBonuses(value) == AsObject([m \in DOMAIN value |-> normalizeBonus(value[m])])

normalizeMonthlyExpenses(value) ==
  AsObject([m \in DOMAIN value |-> normalizeItems(value[m])])

(***************************************************************************)
(* The stored state and its JSON text.  A JSON text is modelled by the     *)
(* value it parses to; what JSON.stringify loses is lost in ToJson.        *)
(***************************************************************************)
PersistedFields ==
  {"incomes", "fixedExpenses", "monthlyBonuses", "variableExpensesByMonth",
   "currencyCode", "period", "activeTab", "activeMonth", "showIncomePanel",
   "showFixedExpensesPanel", "locale"}

buildStoredState(s) ==
  [incomes |-> s.incomes,
   fixedExpenses |-> s.fixedExpenses,
   monthlyBonuses |-> s.monthlyBonuses,
   variableExpensesByMonth |-> s.variableExpensesByMonth,
   currencyCode |-> s.currencyCode,
   period |-> s.period,
   activeTab |-> s.activeTab,
   activeMonth |-> s.activeMonth,
   showIncomePanel |-> s.showIncomePanel,
   showFixedExpensesPanel |-> s.showFixedExpensesPanel,
   locale |-> s.locale]

\* JSON.stringify of a number: NaN becomes null
JsonNumber(n) == IF n = NaN THEN JsonNull ELSE n

JsonItems(items) ==
  AsSeq([i \in 1..Len(items) |-> [items[i] EXCEPT !.amountBaseUsd = JsonNumber(@)]])

\* JSON.parse(JSON.stringify(payload))
ToJson(payload) ==
  [payload EXCEPT
     !.incomes = JsonItems(@),
     !.fixedExpenses = JsonItems(@),
     !.monthlyBonuses =
        AsObject([m \in DOMAIN @ |-> [@[m] EXCEPT !.amountBaseUsd = JsonNumber(@)]]),
     !.variableExpensesByMonth = AsObject([m \in DOMAIN @ |-> JsonItems(@[m])])]

\* window.localStorage under STORAGE_KEY: no entry, a JSON text, or a text
\* JSON.parse rejects
NoEntry == [kind |-> "absent"]
Unparsable == [kind |-> "garbage"]
Entry(json) == [kind |-> "json", json |-> json]

\* the value of loadStoredState(): null, or the parsed document
NullState == [present |-> FALSE]
SomeState(doc) == [present |-> TRUE, doc |-> doc]

loadStoredState(entry) ==
  IF entry.kind = "json" THEN SomeState(entry.json) ELSE NullState

\* storedState?.field ?? fallback
StoredOr(stored, f, fallback) ==
  IF stored.present /\ HasField(stored.doc, f) THEN stored.doc[f] ELSE fallback

(***************************************************************************)
(* The component.  A "world" w is a record of the component's state        *)
(* (useState), its refs (useRef) and the part of the browser the effects   *)
(* act on (local storage, the timer table, the load requests in flight),   *)
(* together with w.dirty, the dependencies that changed since the last     *)
(* render.                                                                 *)
(***************************************************************************)
NoError == "null"
NoTimer == 0

\* every dependency of an effect
AllDeps == PersistedFields \cup {"session", "userId", "syncReady"}

\* setState(value) of a primitive: a render is scheduled when the value differs
SetPrim(w, f, v) ==
  IF w[f] = v THEN w ELSE [w EXCEPT ![f] = v, !.dirty = @ \cup {f}]

\* setState(value) of an array or object: a new reference, always a change
SetRef(w, f, v) == [w EXCEPT ![f] = v, !.dirty = @ \cup {f}]

\* Reformat as it would be if it converted the stored amount as well
ReformatConverting(items, code, p) ==
  AsSeq([i \in 1..Len(items) |->
     [items[i] EXCEPT !.amountBaseUsd = IF @ = NaN THEN NaN ELSE (@ * 10) \div Rate(code),
                      !.amountInput = formatDisplayAmount(items[i].amountBaseUsd, code, p)]])

\* prev.map((item) => ({...item, amountInput: formatDisplayAmount(item.amountBaseUsd)}))
Reformat(items, code, p) ==
  AsSeq([i \in 1..Len(items) |->
     [items[i] EXCEPT !.amountInput = formatDisplayAmount(items[i].amountBaseUsd, code, p)]])

\* resetToDefaults as it would be if the bonuses were forgotten
resetToDefaultsButBonuses(r, w) ==
  LET w1 == [w EXCEPT !.skipNextSyncRef = TRUE]
      w2 == SetRef(w1, "incomes", buildDefaultIncomes(r.locale))
      w3 == SetRef(w2, "fixedExpenses", buildDefaultFixedExpenses(r.locale))
      w5 == SetRef(w3, "variableExpensesByMonth", <<>>)
  IN [w5 EXCEPT !.localStorage = NoEntry]

\* resetToDefaults, called in the render r
resetToDefaults(r, w) ==
  LET w1 == [w EXCEPT !.skipNextSyncRef = TRUE]
      w2 == SetRef(w1, "incomes", buildDefaultIncomes(r.locale))
      w3 == SetRef(w2, "fixedExpenses", buildDefaultFixedExpenses(r.locale))
      w4 == SetRef(w3, "monthlyBonuses", <<>>)
      w5 == SetRef(w4, "variableExpensesByMonth", <<>>)
  IN [w5 EXCEPT !.localStorage = NoEntry]

\* the fields of the state that hold arrays and objects
RefFields == {"incomes", "fixedExpenses", "monthlyBonuses", "variableExpensesByMonth"}

\* what applyStoredState sets the field f to, from the document d
StoredValue(d, f) ==
  CASE f = "incomes" -> normalizeItems(d.incomes)
    [] f = "fixedExpenses" -> normalizeItems(d.fixedExpenses)
    [] f = "monthlyBonuses" -> normalizeBonuses(d.monthlyBonuses)
    [] f = "variableExpensesByMonth" -> normalizeMonthlyExpenses(d.variableExpensesByMonth)
    [] OTHER -> d[f]

\* ApplyField as it would be if the active month of the document were not applied
ApplyFieldButMonth(d, f, w) ==
  IF ~HasField(d, f) \/ f = "activeMonth" THEN w
  ELSE IF f \in RefFields THEN SetRef(w, f, StoredValue(d, f))
  ELSE SetPrim(w, f, StoredValue(d, f))

\* if (state.f) { setF(...) }
ApplyField(d, f, w) ==
  IF ~HasField(d, f) THEN w
  ELSE IF f \in RefFields THEN SetRef(w, f, StoredValue(d, f))
  ELSE SetPrim(w, f, StoredValue(d, f))

\* applyStoredState(state): state is null or a document
applyStoredState(state, w) ==
  IF ~state.present THEN w
  ELSE
    ApplyField(state.doc, "locale",
    ApplyField(state.doc, "showFixedExpensesPanel",
    ApplyField(state.doc, "showIncomePanel",
    ApplyField(state.doc, "activeMonth",
    ApplyField(state.doc, "activeTab",
    ApplyField(state.doc, "period",
    ApplyField(state.doc, "currencyCode",
    ApplyField(state.doc, "variableExpensesByMonth",
    ApplyField(state.doc, "monthlyBonuses",
    ApplyField(state.doc, "fixedExpenses",
    ApplyField(state.doc, "incomes",
               [w EXCEPT !.skipNextSyncRef = TRUE])))))))))))

\* the dependencies of the effects; an effect runs in a render r when one of
\* its dependencies changed (r.dirty) since the render before
LoadDeps == {"userId"}
SignOutDeps == {"session", "locale"}
ReformatDeps == {"currencyCode", "period", "activeMonth"}
MonthViewDeps == {"activeTab"}
\* SyncDeps as it would be without buildStoredState among the dependencies
SyncDepsSessionOnly == {"session", "syncReady"}

SyncDeps == {"session", "syncReady"} \cup PersistedFields

\* AuthEffect as it would be without the branch for a missing configuration
AuthEffectConfigured(r, w) == w

\* useEffect(..., []): the auth effect; with a configured backend it asks for
\* the session and subscribes to the auth events, which arrive later
AuthEffect(r, w) ==
  IF "mount" \notin r.dirty THEN w
  ELSE IF ~r.configured THEN [w EXCEPT !.authLoading = FALSE] ELSE w

\* SignOutEffect as it would be without the call of resetToDefaults
SignOutEffectKeeps(r, w) ==
  IF r.dirty \cap SignOutDeps = {} THEN w
  ELSE [w EXCEPT !.previousSessionRef = r.session]

\* useEffect(..., [session, resetToDefaults]): the sign-out effect
SignOutEffect(r, w) ==
  IF r.dirty \cap SignOutDeps = {} THEN w
  ELSE IF w.previousSessionRef # NoSession /\ r.session = NoSession
  THEN resetToDefaults(r, [w EXCEPT !.previousSessionRef = r.session])
  ELSE [w EXCEPT !.previousSessionRef = r.session]

\* useEffect(..., [session?.user.id, ...]): the remote load effect; its body
\* up to the await
LoadEffect(r, w) ==
  IF r.dirty \cap LoadDeps = {} \/ ~r.configured THEN w
  ELSE IF r.session = NoSession
  THEN [SetPrim(w, "syncReady", FALSE) EXCEPT !.syncStatus = "idle", !.syncError = NoError]
  ELSE [w EXCEPT !.syncStatus = "loading",
                 !.syncError = NoError,
                 !.loads = @ \cup {[user |-> r.session, isMounted |-> TRUE]}]

\* LoadCleanup as it would be if the effect returned no cleanup
LoadCleanupNothing(r, w) == w

\* the cleanup of the remote load effect: isMounted = false
LoadCleanup(r, w) ==
  IF r.dirty \cap LoadDeps = {} THEN w
  ELSE [w EXCEPT !.loads = {[l EXCEPT !.isMounted = FALSE] : l \in @}]

\* the update of monthlyBonuses in the re-format effect
ReformatBonus(bonuses, month, code, p) ==
  IF month \in DOMAIN bonuses
  THEN [bonuses EXCEPT ![month].amountInput =
          formatDisplayAmount(bonuses[month].amountBaseUsd, code, p)]
  ELSE bonuses

\* useEffect(..., [currencyCode, period, activeMonth]): the re-format effect
ReformatEffect(r, w) ==
  IF r.dirty \cap ReformatDeps = {} THEN w
  ELSE [w EXCEPT
          !.incomes = Reformat(@, r.currencyCode, r.period),
          !.fixedExpenses = Reformat(@, r.currencyCode, r.period),
          !.monthlyBonuses = ReformatBonus(@, r.activeMonth, r.currencyCode, r.period),
          !.variableExpensesByMonth =
             AsObject([m \in DOMAIN @ |-> Reformat(@[m], r.currencyCode, r.period)]),
          !.dirty = @ \cup (IF r.activeMonth \in DOMAIN w.monthlyBonuses
                            THEN RefFields ELSE RefFields \ {"monthlyBonuses"})]

\* useEffect(..., [activeTab]): a month view is always monthly
MonthViewEffect(r, w) ==
  IF r.dirty \cap MonthViewDeps = {} THEN w
  ELSE IF r.activeTab # Dashboard THEN SetPrim(w, "period", "monthly") ELSE w

\* StorageEffect as it would be if buildStoredState missed the dependency activeTab
StorageEffectStale(r, w) ==
  IF r.dirty \cap (PersistedFields \ {"activeTab"}) = {} THEN w
  ELSE [w EXCEPT !.localStorage = Entry(ToJson(buildStoredState(r)))]

\* useEffect(..., [buildStoredState]): the local storage effect
StorageEffect(r, w) ==
  IF r.dirty \cap PersistedFields = {} THEN w
  ELSE [w EXCEPT !.localStorage = Entry(ToJson(buildStoredState(r)))]

\* ClearPending as it would be if clearTimeout were left out
ClearPendingNothing(w) == w

\* window.clearTimeout(pendingSyncRef.current)
ClearPending(w) ==
  [w EXCEPT !.timers = {t \in @ : t.id # w.pendingSyncRef}]

\* an id window.setTimeout has not handed out among those still referred to
FreshTimerId(w) ==
  CHOOSE i \in 1..(Cardinality(w.timers) + 2) :
    /\ i # w.pendingSyncRef
    /\ \A t \in w.timers : t.id # i
    /\ \A j \in 1..(i - 1) : j = w.pendingSyncRef \/ \E t \in w.timers : t.id = j

\* SyncCleanup as it would be if the effect returned no cleanup
SyncCleanupNothing(r, w) == w

\* the cleanup of the debounced upsert effect
SyncCleanup(r, w) ==
  IF r.dirty \cap SyncDeps = {} THEN w
  ELSE IF w.pendingSyncRef # NoTimer THEN ClearPending(w) ELSE w

\* window.setTimeout(callback, 800): the timer keeps the session and the
\* buildStoredState of the render r.  Of a timer the table also keeps its
\* age, the milliseconds since it was armed (counted up to its delay), and
\* whether the persisted state has changed since (stale)
SetTimeout(r, w) ==
  [w EXCEPT !.pendingSyncRef = FreshTimerId(w),
            !.timers = @ \cup {[id |-> FreshTimerId(w),
                                user |-> r.session,
                                payload |-> buildStoredState(r),
                                delay |-> DebounceMs,
                                age |-> 0,
                                stale |-> FALSE]}]

\* SyncEffect as it would be without the syncReady guard
SyncEffectUnguarded(r, w) ==
  IF r.dirty \cap SyncDeps = {} THEN w
  ELSE IF ~r.configured \/ r.session = NoSession THEN w
  ELSE IF w.skipNextSyncRef THEN [w EXCEPT !.skipNextSyncRef = FALSE]
  ELSE SetTimeout(r, IF w.pendingSyncRef # NoTimer THEN ClearPending(w) ELSE w)

\* SyncEffect as it would be if skipNextSyncRef were never set back
SyncEffectKeepsSkipping(r, w) ==
  IF r.dirty \cap SyncDeps = {} THEN w
  ELSE IF ~r.configured \/ r.session = NoSession \/ ~r.syncReady THEN w
  ELSE IF w.skipNextSyncRef THEN w
  ELSE SetTimeout(r, IF w.pendingSyncRef # NoTimer THEN ClearPending(w) ELSE w)

\* useEffect(..., [session, syncReady, buildStoredState, ...]): the debounced
\* upsert effect
SyncEffect(r, w) ==
  IF r.dirty \cap SyncDeps = {} THEN w
  ELSE IF ~r.configured \/ r.session = NoSession \/ ~r.syncReady THEN w
  ELSE IF w.skipNextSyncRef THEN [w EXCEPT !.skipNextSyncRef = FALSE]
  ELSE SetTimeout(r, IF w.pendingSyncRef # NoTimer THEN ClearPending(w) ELSE w)

\* one commit: the cleanups of the effects whose dependencies changed, then
\* the effects in the order of declaration, all in the render r
EffectBodies(r, w) ==
  SyncEffect(r,
  StorageEffect(r,
  MonthViewEffect(r,
  ReformatEffect(r,
  LoadEffect(r,
  SignOutEffect(r,
  AuthEffect(r,
  SyncCleanup(r,
  LoadCleanup(r, w)))))))))

EffectPass(w) == EffectBodies(w, [w EXCEPT !.dirty = {}])

RECURSIVE Settle(_)
\* render and run effects until no effect changes the state
Settle(w) == IF w.dirty = {} THEN w ELSE Settle(EffectPass(w))

\* storedState?.field ? storedState.field.map(normalizeItem) : defaults
StoredItemsOr(stored, f, defaults) ==
  IF stored.present /\ HasField(stored.doc, f) THEN normalizeItems(stored.doc[f]) ELSE defaults

\* the first render: the useState initial values, from loadStoredState()
InitialWorld(isConfigured, entry) ==
  [incomes |->
     StoredItemsOr(loadStoredState(entry), "incomes",
                   buildDefaultIncomes(StoredOr(loadStoredState(entry), "locale", "en"))),
   fixedExpenses |->
     StoredItemsOr(loadStoredState(entry), "fixedExpenses",
                   buildDefaultFixedExpenses(StoredOr(loadStoredState(entry), "locale", "en"))),
   monthlyBonuses |-> normalizeBonuses(StoredOr(loadStoredState(entry), "monthlyBonuses", <<>>)),
   variableExpensesByMonth |->
     normalizeMonthlyExpenses(StoredOr(loadStoredState(entry), "variableExpensesByMonth", <<>>)),
   currencyCode |-> StoredOr(loadStoredState(entry), "currencyCode", "USD"),
   period |-> StoredOr(loadStoredState(entry), "period", "monthly"),
   activeTab |-> StoredOr(loadStoredState(entry), "activeTab", Dashboard),
   activeMonth |-> StoredOr(loadStoredState(entry), "activeMonth", "Jan"),
   showIncomePanel |-> StoredOr(loadStoredState(entry), "showIncomePanel", FALSE),
   showFixedExpensesPanel |-> StoredOr(loadStoredState(entry), "showFixedExpensesPanel", FALSE),
   locale |-> StoredOr(loadStoredState(entry), "locale", "en"),
   session |-> NoSession,
   isRecovery |-> FALSE,
   authLoading |-> TRUE,
   syncStatus |-> "idle",
   syncError |-> NoError,
   syncReady |-> FALSE,
   pendingSyncRef |-> NoTimer,
   skipNextSyncRef |-> FALSE,
   previousSessionRef |-> NoSession,
   localStorage |-> entry,
   timers |-> {},
   loads |-> {},
   now |-> 0,
   configured |-> isConfigured,
   dirty |-> AllDeps \cup {"mount"}]

\* the component after mounting on a local-storage entry
Mounted(isConfigured, entry) == Settle(InitialWorld(isConfigured, entry))

(***************************************************************************)
(* State.                                                                  *)
(***************************************************************************)
\* first the useState of App that holds the persisted budget state
VARIABLES
  incomes, fixedExpenses, monthlyBonuses, variableExpensesByMonth,
  currencyCode, period, activeTab, activeMonth,
  showIncomePanel, showFixedExpensesPanel, locale,
  \* useState of App: session and synchronisation
  session, isRecovery, authLoading, syncStatus, syncError, syncReady,
  \* useRef of App
  pendingSyncRef, skipNextSyncRef, previousSessionRef,
  \* the browser: window.localStorage[STORAGE_KEY], the pending timers, the
  \* select requests in flight, the number of ids generated so far
  localStorage, timers, loads, now,
  \* import.meta.env: both VITE_SUPABASE_URL and VITE_SUPABASE_ANON_KEY are set
  isSupabaseConfigured,
  \* the backend: the budget_state table, one row per user_id, and the
  \* upsert requests in flight
  remote, writes,
  \* bookkeeping of the upserts: how many were issued, and per user the one
  \* issued last
  issued, lastIssued,
  \* bookkeeping of the exploration: edits and auth events so far
  edits, auths,
  \* useState of Auth: the fields of the recovery panel, the success and the
  \* error text, and the flag that disables the buttons
  newPassword, confirmPassword, message, authError, working,
  \* the request of a handler of Auth that is in flight
  authRequest

vars ==
  << incomes, fixedExpenses, monthlyBonuses, variableExpensesByMonth,
     currencyCode, period, activeTab, activeMonth,
     showIncomePanel, showFixedExpensesPanel, locale,
     session, isRecovery, authLoading, syncStatus, syncError, syncReady,
     pendingSyncRef, skipNextSyncRef, previousSessionRef,
     localStorage, timers, loads, now, isSupabaseConfigured,
     remote, writes, issued, lastIssued, edits, auths,
     newPassword, confirmPassword, message, authError, working, authRequest >>

\* the useState of Auth and its request
authVars == <<newPassword, confirmPassword, message, authError, working, authRequest>>

\* no request of Auth is in flight
NoRequest == [kind |-> "none"]

\* the component and its browser as they stand
World ==
  [incomes |-> incomes, fixedExpenses |-> fixedExpenses,
   monthlyBonuses |-> monthlyBonuses,
   variableExpensesByMonth |-> variableExpensesByMonth,
   currencyCode |-> currencyCode, period |-> period,
   activeTab |-> activeTab, activeMonth |-> activeMonth,
   showIncomePanel |-> showIncomePanel,
   showFixedExpensesPanel |-> showFixedExpensesPanel, locale |-> locale,
   session |-> session, isRecovery |-> isRecovery, authLoading |-> authLoading,
   syncStatus |-> syncStatus, syncError |-> syncError, syncReady |-> syncReady,
   pendingSyncRef |-> pendingSyncRef, skipNextSyncRef |-> skipNextSyncRef,
   previousSessionRef |-> previousSessionRef,
   localStorage |-> localStorage, timers |-> timers, loads |-> loads,
   now |-> now, configured |-> isSupabaseConfigured, dirty |-> {}]

\* the persisted state as it stands
Persisted == buildStoredState(World)

\* the timers of the world w, those that were pending before the task marked
\* stale when the task changed the persisted state
Aged(w) ==
  IF buildStoredState(w) = Persisted THEN w.timers
  ELSE {IF t \in timers THEN [t EXCEPT !.stale = TRUE] ELSE t : t \in w.timers}

\* the task ends in the world w: the state is updated and every effect has run
Commit(w0) ==
  LET w == Settle(w0)
  IN /\ incomes' = w.incomes
     /\ fixedExpenses' = w.fixedExpenses
     /\ monthlyBonuses' = w.monthlyBonuses
     /\ variableExpensesByMonth' = w.variableExpensesByMonth
     /\ currencyCode' = w.currencyCode
     /\ period' = w.period
     /\ activeTab' = w.activeTab
     /\ activeMonth' = w.activeMonth
     /\ showIncomePanel' = w.showIncomePanel
     /\ showFixedExpensesPanel' = w.showFixedExpensesPanel
     /\ locale' = w.locale
     /\ session' = w.session
     /\ isRecovery' = w.isRecovery
     /\ authLoading' = w.authLoading
     /\ syncStatus' = w.syncStatus
     /\ syncError' = w.syncError
     /\ syncReady' = w.syncReady
     /\ pendingSyncRef' = w.pendingSyncRef
     /\ skipNextSyncRef' = w.skipNextSyncRef
     /\ previousSessionRef' = w.previousSessionRef
     /\ localStorage' = w.localStorage
     /\ timers' = Aged(w)
     /\ loads' = w.loads
     /\ now' = w.now

NoRow == [exists |-> FALSE]
Row(doc) == [exists |-> TRUE, state |-> doc]
NeverIssued == [seq |-> 0]

(***************************************************************************)
(* Initial states: the component mounted on what local storage holds, the  *)
(* backend configured or not, each user's row there or not.                *)
(***************************************************************************)
\* a state an earlier run saved: the Spanish defaults with both panels open
SavedDoc ==
  ToJson([buildStoredState(Mounted(FALSE, NoEntry)) EXCEPT
            !.incomes = Reformat(buildDefaultIncomes("es"), "USD", "monthly"),
            !.fixedExpenses = Reformat(buildDefaultFixedExpenses("es"), "USD", "monthly"),
            !.showIncomePanel = TRUE,
            !.showFixedExpensesPanel = TRUE,
            !.locale = "es"])

\* a document another device of the user wrote: one income and a bonus,
\* typed in quetzales
RemoteDoc ==
  [incomes |-> << Item("income-1", "Paycheck", 24000, <<"1", "8", "7", "2">>) >>,
   fixedExpenses |-> buildDefaultFixedExpenses("en"),
   monthlyBonuses |-> [m \in {"Feb"} |-> [amountBaseUsd |-> 500, amountInput |-> <<"3", "9">>]],
   variableExpensesByMonth |-> <<>>,
   currencyCode |-> "GTQ", period |-> "monthly",
   activeTab |-> Dashboard, activeMonth |-> "Feb",
   showIncomePanel |-> TRUE, showFixedExpensesPanel |-> FALSE,
   locale |-> "en"]

\* a document written by the version of the app that stored no locale
\* (src/unnamed/part_000), left on the month view of February
OldDoc ==
  [incomes |-> buildDefaultIncomes("en"),
   fixedExpenses |-> buildDefaultFixedExpenses("en"),
   monthlyBonuses |-> <<>>,
   variableExpensesByMonth |->
     [m \in {"Feb"} |-> << Item("variable-1", "New variable", 46800, <<"4", "6", "8">>) >>],
   currencyCode |-> "USD", period |-> "monthly",
   activeTab |-> "Feb", activeMonth |-> "Feb",
   showIncomePanel |-> FALSE, showFixedExpensesPanel |-> FALSE]

InitialEntries == {NoEntry, Entry(SavedDoc)}
LocalEntries == InitialEntries \cup {Entry(OldDoc)}
InitialRows == {Row(RemoteDoc), Row(OldDoc)}

InitWith(isConfigured, entry, rows) ==
  LET w == Mounted(isConfigured, entry)
  IN /\ incomes = w.incomes
     /\ fixedExpenses = w.fixedExpenses
     /\ monthlyBonuses = w.monthlyBonuses
     /\ variableExpensesByMonth = w.variableExpensesByMonth
     /\ currencyCode = w.currencyCode
     /\ period = w.period
     /\ activeTab = w.activeTab
     /\ activeMonth = w.activeMonth
     /\ showIncomePanel = w.showIncomePanel
     /\ showFixedExpensesPanel = w.showFixedExpensesPanel
     /\ locale = w.locale
     /\ session = w.session
     /\ isRecovery = w.isRecovery
     /\ authLoading = w.authLoading
     /\ syncStatus = w.syncStatus
     /\ syncError = w.syncError
     /\ syncReady = w.syncReady
     /\ pendingSyncRef = w.pendingSyncRef
     /\ skipNextSyncRef = w.skipNextSyncRef
     /\ previousSessionRef = w.previousSessionRef
     /\ localStorage = w.localStorage
     /\ timers = w.timers
     /\ loads = w.loads
     /\ now = w.now
     /\ isSupabaseConfigured = isConfigured
     /\ remote = rows
     /\ writes = {}
     /\ issued = 0
     /\ lastIssued = [u \in Users |-> NeverIssued]
     /\ edits = 0
     /\ auths = 0
     /\ newPassword = <<>>
     /\ confirmPassword = <<>>
     /\ message = ""
     /\ authError = ""
     /\ working = FALSE
     /\ authRequest = NoRequest

\* the first user has a row, the second has none yet
Init ==
  \E isConfigured \in BOOLEAN, entry \in InitialEntries, row \in InitialRows :
    InitWith(isConfigured, entry, [u \in Users |-> IF u = "u1" THEN row ELSE NoRow])

\* no backend is configured: the app works on local storage alone
InitLocal ==
  \E entry \in LocalEntries : InitWith(FALSE, entry, [u \in Users |-> NoRow])

\* what no task touches in the backend
BackendUnchanged == UNCHANGED <<remote, writes, issued, lastIssued>>

(***************************************************************************)
(* Authentication: supabase.auth.getSession() and onAuthStateChange.       *)
(***************************************************************************)
\* setSession(next): a session object is a new reference each time
SetSession(w, next) ==
  LET d == (IF next = NoSession /\ w.session = NoSession THEN {} ELSE {"session"})
           \cup (IF next # w.session THEN {"userId"} ELSE {})
  IN [w EXCEPT !.session = next, !.dirty = @ \cup d]

\* getSession().then(...): the session the client restored, or none
GetSessionResolved(s) ==
  /\ isSupabaseConfigured
  /\ authLoading
  /\ Commit([SetSession(World, s) EXCEPT !.authLoading = FALSE])
  /\ BackendUnchanged
  /\ UNCHANGED <<isSupabaseConfigured, edits, auths>>
  /\ UNCHANGED authVars

\* the callback of onAuthStateChange
OnAuthStateChange(event, nextSession) ==
  LET w1 == SetSession(World, nextSession)
      w2 == IF event = "PASSWORD_RECOVERY" THEN [w1 EXCEPT !.isRecovery = TRUE] ELSE w1
      w3 == IF event = "SIGNED_OUT" THEN [w2 EXCEPT !.isRecovery = FALSE] ELSE w2
  IN /\ isSupabaseConfigured
     /\ ~authLoading
     /\ auths < MaxAuth
     /\ auths' = auths + 1
     /\ Commit(w3)
     /\ BackendUnchanged
     /\ UNCHANGED <<isSupabaseConfigured, edits>>
     /\ UNCHANGED authVars

\* the user signs in (the form of Auth is shown while there is no session)
SignedIn(u) == session = NoSession /\ OnAuthStateChange("SIGNED_IN", u)

\* the user signs out, here or in another tab
SignedOut == session # NoSession /\ OnAuthStateChange("SIGNED_OUT", NoSession)

\* the client refreshes the token of the session
TokenRefreshed == session # NoSession /\ OnAuthStateChange("TOKEN_REFRESHED", session)

(***************************************************************************)
(* The remote load: loadRemoteState after its await.                       *)
(***************************************************************************)
\* what the select for user u answers: an error, or data (the row or null)
LoadOutcomes(u) == {[error |-> TRUE], [error |-> FALSE, row |-> remote[u]]}

\* the rest of loadRemoteState, in the world w
loadRemoteState(l, outcome, w) ==
  IF ~l.isMounted THEN w
  ELSE IF outcome.error
  THEN LET w1 == [w EXCEPT !.syncStatus = "error", !.syncError = "load failed"]
       IN SetPrim(w1, "syncReady", TRUE)
  ELSE LET w1 == IF outcome.row.exists
                 THEN applyStoredState(SomeState(outcome.row.state), w) ELSE w
           w2 == [w1 EXCEPT !.syncStatus = "idle"]
       IN SetPrim(w2, "syncReady", TRUE)

\* the answer to the select request l arrives
LoadCompletes(l, outcome) ==
  /\ l \in loads
  /\ outcome \in LoadOutcomes(l.user)
  /\ Commit(loadRemoteState(l, outcome, [World EXCEPT !.loads = @ \ {l}]))
  /\ BackendUnchanged
  /\ UNCHANGED <<isSupabaseConfigured, edits, auths>>
  /\ UNCHANGED authVars

(***************************************************************************)
(* The debounced upsert: the callback of window.setTimeout.                *)
(***************************************************************************)
\* time passes: every pending timer is TickMs older
Tick ==
  /\ timers' = {[t EXCEPT !.age = IF @ + TickMs < t.delay THEN @ + TickMs ELSE t.delay] :
                  t \in timers}
  /\ UNCHANGED << incomes, fixedExpenses, monthlyBonuses, variableExpensesByMonth,
                  currencyCode, period, activeTab, activeMonth,
                  showIncomePanel, showFixedExpensesPanel, locale,
                  session, isRecovery, authLoading, syncStatus, syncError, syncReady,
                  pendingSyncRef, skipNextSyncRef, previousSessionRef,
                  localStorage, loads, now, isSupabaseConfigured,
                  remote, writes, issued, lastIssued, edits, auths >>
  /\ UNCHANGED authVars

\* UpsertOf as it would be if user_id were not taken from the session
UpsertOfOther(t, seq) ==
  [seq |-> seq, user |-> CHOOSE u \in Users : u # t.user,
   payload |-> t.payload, alive |-> TRUE]

\* the upsert request the callback of timer t sends: user_id and state come
\* from the render that armed the timer
UpsertOf(t, seq) ==
  [seq |-> seq, user |-> t.user, payload |-> t.payload, alive |-> TRUE]

\* the timer t is due: the callback runs up to its await
TimerFires(t) ==
  /\ t \in timers
  /\ t.age >= t.delay
  /\ issued' = issued + 1
  /\ writes' = writes \cup {UpsertOf(t, issued + 1)}
  /\ lastIssued' = [lastIssued EXCEPT ![t.user] =
                      [seq |-> issued + 1, payload |-> t.payload,
                       status |-> "sent", overtook |-> FALSE]]
  /\ Commit([World EXCEPT !.timers = @ \ {t},
                          !.syncStatus = "saving",
                          !.syncError = NoError])
  /\ UNCHANGED <<remote, isSupabaseConfigured, edits, auths>>
  /\ UNCHANGED authVars

\* the table after the upsert q: the row whose user_id is q.user holds the state
Upserted(rows, q) == [rows EXCEPT ![q.user] = Row(ToJson(q.payload))]

\* afterUpsert as it would be if a failure armed the timer again
afterUpsertRetry(failed, w) ==
  IF failed
  THEN SetTimeout(w, [w EXCEPT !.syncStatus = "error", !.syncError = "write failed"])
  ELSE [w EXCEPT !.syncStatus = "idle"]

\* afterUpsert as it would be if the error of the upsert were ignored
afterUpsertSilent(failed, w) ==
  IF failed THEN w ELSE [w EXCEPT !.syncStatus = "idle"]

\* the rest of the callback, after the await
afterUpsert(failed, w) ==
  IF failed THEN [w EXCEPT !.syncStatus = "error", !.syncError = "write failed"]
  ELSE [w EXCEPT !.syncStatus = "idle"]

\* the server handles the upsert q and its answer arrives
WriteCompletes(q, failed) ==
  /\ q \in writes
  /\ writes' = writes \ {q}
  /\ remote' = IF failed THEN remote ELSE Upserted(remote, q)
  /\ lastIssued' =
       IF lastIssued[q.user].seq = q.seq
       THEN [lastIssued EXCEPT ![q.user].status = IF failed THEN "failed" ELSE "ok",
                               ![q.user].overtook =
                                  \E o \in writes : o.user = q.user /\ o.seq < q.seq]
       ELSE lastIssued
  /\ Commit(IF q.alive THEN afterUpsert(failed, World) ELSE World)
  /\ UNCHANGED <<issued, isSupabaseConfigured, edits, auths>>
  /\ UNCHANGED authVars

(***************************************************************************)
(* The handlers of the user interface.  Each is the state update of the    *)
(* handler; Edit makes it a task.                                          *)
(***************************************************************************)
\* RenameItem as it would be without the test of the id
RenameItems(items, id, value) ==
  AsSeq([i \in 1..Len(items) |-> [items[i] EXCEPT !.name = value]])

\* prev.map((item) => item.id === id ? f(item) : item), for the three changes
\* the handlers make
RenameItem(items, id, value) ==
  AsSeq([i \in 1..Len(items) |->
     IF items[i].id = id THEN [items[i] EXCEPT !.name = value] ELSE items[i]])

RetypeItem(items, id, value, code, p) ==
  LET sanitized == sanitizeAmountInput(value)
      nextValue == IF sanitized = <<>> THEN 0 ELSE NumberOf(sanitized)
  IN AsSeq([i \in 1..Len(items) |->
        IF items[i].id = id
        THEN [items[i] EXCEPT !.amountBaseUsd = toBaseMonthly(nextValue, code, p),
                              !.amountInput = sanitized]
        ELSE items[i]])

BlurItem(items, id, code, p) ==
  AsSeq([i \in 1..Len(items) |->
     IF items[i].id = id
     THEN [items[i] EXCEPT !.amountInput =
             formatDisplayAmount(items[i].amountBaseUsd, code, p)]
     ELSE items[i]])

\* prev.filter((item) => item.id !== id)
RemoveItem(items, id) == SelectSeq(items, LAMBDA it : it.id # id)

\* prev[month] ?? []
ItemsOf(byMonth, month) == IF month \in DOMAIN byMonth THEN byMonth[month] ELSE <<>>

\* WithKey as it would be without the spread of prev
WithKeyAlone(obj, month, value) == AsObject([m \in {month} |-> value])

\* {...prev, [month]: value}
WithKey(obj, month, value) ==
  AsObject([m \in DOMAIN obj \cup {month} |-> IF m = month THEN value ELSE obj[m]])

ItemIds(items) == {items[i].id : i \in 1..Len(items)}

handleIncomeNameChange(w, id, value) ==
  SetRef(w, "incomes", RenameItem(w.incomes, id, value))

handleIncomeAmountChange(w, id, value) ==
  SetRef(w, "incomes", RetypeItem(w.incomes, id, value, w.currencyCode, w.period))

handleIncomeAmountBlur(w, id) ==
  SetRef(w, "incomes", BlurItem(w.incomes, id, w.currencyCode, w.period))

handleFixedExpenseNameChange(w, id, value) ==
  SetRef(w, "fixedExpenses", RenameItem(w.fixedExpenses, id, value))

handleFixedExpenseAmountChange(w, id, value) ==
  SetRef(w, "fixedExpenses", RetypeItem(w.fixedExpenses, id, value, w.currencyCode, w.period))

handleFixedExpenseAmountBlur(w, id) ==
  SetRef(w, "fixedExpenses", BlurItem(w.fixedExpenses, id, w.currencyCode, w.period))

handleAddIncome(w) ==
  SetRef([w EXCEPT !.now = @ + 1], "incomes",
         Append(w.incomes, Item("income-" \o ToString(w.now + 1001),
                                Translate(w.locale, "newIncome"), 0, <<"0">>)))

handleRemoveIncome(w, id) == SetRef(w, "incomes", RemoveItem(w.incomes, id))

handleAddFixedExpense(w) ==
  SetRef([w EXCEPT !.now = @ + 1], "fixedExpenses",
         Append(w.fixedExpenses, Item("expense-" \o ToString(w.now + 1001),
                                      Translate(w.locale, "newExpense"), 0, <<"0">>)))

handleRemoveFixedExpense(w, id) ==
  SetRef(w, "fixedExpenses", RemoveItem(w.fixedExpenses, id))

handleBonusAmountChange(w, month, value) ==
  LET sanitized == sanitizeAmountInput(value)
      nextValue == IF sanitized = <<>> THEN 0 ELSE NumberOf(sanitized)
  IN SetRef(w, "monthlyBonuses",
            WithKey(w.monthlyBonuses, month,
                    [amountBaseUsd |-> toBaseMonthly(nextValue, w.currencyCode, w.period),
                     amountInput |-> sanitized]))

\* the update of monthlyBonuses returns prev when the month has no entry
handleBonusAmountBlur(w, month) ==
  IF month \notin DOMAIN w.monthlyBonuses THEN w
  ELSE SetRef(w, "monthlyBonuses",
              [w.monthlyBonuses EXCEPT ![month].amountInput =
                 formatDisplayAmount(w.monthlyBonuses[month].amountBaseUsd,
                                     w.currencyCode, w.period)])

handleVariableExpenseNameChange(w, month, id, value) ==
  SetRef(w, "variableExpensesByMonth",
         WithKey(w.variableExpensesByMonth, month,
                 RenameItem(ItemsOf(w.variableExpensesByMonth, month), id, value)))

handleVariableExpenseAmountChange(w, month, id, value) ==
  SetRef(w, "variableExpensesByMonth",
         WithKey(w.variableExpensesByMonth, month,
                 RetypeItem(ItemsOf(w.variableExpensesByMonth, month), id, value,
                            w.currencyCode, w.period)))

handleVariableExpenseAmountBlur(w, month, id) ==
  SetRef(w, "variableExpensesByMonth",
         WithKey(w.variableExpensesByMonth, month,
                 BlurItem(ItemsOf(w.variableExpensesByMonth, month), id,
                          w.currencyCode, w.period)))

handleAddVariableExpense(w, month) ==
  SetRef([w EXCEPT !.now = @ + 1], "variableExpensesByMonth",
         WithKey(w.variableExpensesByMonth, month,
                 Append(ItemsOf(w.variableExpensesByMonth, month),
                        Item("variable-" \o ToString(w.now + 1001),
                             Translate(w.locale, "newVariable"), 0, <<"0">>))))

handleRemoveVariableExpense(w, month, id) ==
  SetRef(w, "variableExpensesByMonth",
         WithKey(w.variableExpensesByMonth, month,
                 RemoveItem(ItemsOf(w.variableExpensesByMonth, month), id)))

\* selectMonth as it would be without setActiveMonth
selectMonthTabOnly(w, nextMonth) == SetPrim(w, "activeTab", nextMonth)

\* the onChange of the month select
selectMonth(w, nextMonth) ==
  IF nextMonth = w.activeMonth THEN SetPrim(w, "activeTab", nextMonth)
  ELSE SetPrim(SetPrim(w, "activeMonth", nextMonth), "activeTab", nextMonth)

\* the onClick of the month select
clickMonthSelect(w) ==
  IF w.activeTab = Dashboard THEN SetPrim(w, "activeTab", w.activeMonth) ELSE w

\* the edits a run explores: fewer where synchronisation multiplies the states
EditBudget == IF isSupabaseConfigured THEN MaxEdits ELSE MaxLocalEdits

\* a handler ran and left the world w: one task of the user interface
Edit(w) ==
  /\ edits < EditBudget
  /\ edits' = edits + 1
  /\ Commit(w)
  /\ BackendUnchanged
  /\ UNCHANGED <<isSupabaseConfigured, auths>>
  /\ UNCHANGED authVars

\* what the user types into an amount field
TypedAmounts == { <<"4", "6", "8">>, <<".">> }
TypedNames == { "Salary" }

isDashboard == activeTab = Dashboard
isMonthView == ~isDashboard

IncomeAmountChange(id, value) ==
  /\ isDashboard /\ showIncomePanel /\ id \in ItemIds(incomes)
  /\ Edit(handleIncomeAmountChange(World, id, value))

IncomeAmountBlur(id) ==
  /\ isDashboard /\ showIncomePanel /\ id \in ItemIds(incomes)
  /\ Edit(handleIncomeAmountBlur(World, id))

IncomeNameChange(id, value) ==
  /\ isDashboard /\ showIncomePanel /\ id \in ItemIds(incomes)
  /\ Edit(handleIncomeNameChange(World, id, value))

AddIncome == isDashboard /\ showIncomePanel /\ Edit(handleAddIncome(World))

RemoveIncome(id) ==
  /\ isDashboard /\ showIncomePanel /\ id \in ItemIds(incomes)
  /\ Edit(handleRemoveIncome(World, id))

FixedExpenseAmountChange(id, value) ==
  /\ isDashboard /\ showFixedExpensesPanel /\ id \in ItemIds(fixedExpenses)
  /\ Edit(handleFixedExpenseAmountChange(World, id, value))

FixedExpenseAmountBlur(id) ==
  /\ isDashboard /\ showFixedExpensesPanel /\ id \in ItemIds(fixedExpenses)
  /\ Edit(handleFixedExpenseAmountBlur(World, id))

FixedExpenseNameChange(id, value) ==
  /\ isDashboard /\ showFixedExpensesPanel /\ id \in ItemIds(fixedExpenses)
  /\ Edit(handleFixedExpenseNameChange(World, id, value))

AddFixedExpense == isDashboard /\ showFixedExpensesPanel /\ Edit(handleAddFixedExpense(World))

RemoveFixedExpense(id) ==
  /\ isDashboard /\ showFixedExpensesPanel /\ id \in ItemIds(fixedExpenses)
  /\ Edit(handleRemoveFixedExpense(World, id))

\* the bonus field and the variable expenses of a month view act on activeTab
BonusAmountChange(value) ==
  isMonthView /\ Edit(handleBonusAmountChange(World, activeTab, value))

BonusAmountBlur == isMonthView /\ Edit(handleBonusAmountBlur(World, activeTab))

AddVariableExpense == isMonthView /\ Edit(handleAddVariableExpense(World, activeTab))

VariableExpenseAmountChange(id, value) ==
  /\ isMonthView /\ id \in ItemIds(ItemsOf(variableExpensesByMonth, activeTab))
  /\ Edit(handleVariableExpenseAmountChange(World, activeTab, id, value))

VariableExpenseAmountBlur(id) ==
  /\ isMonthView /\ id \in ItemIds(ItemsOf(variableExpensesByMonth, activeTab))
  /\ Edit(handleVariableExpenseAmountBlur(World, activeTab, id))

VariableExpenseNameChange(id, value) ==
  /\ isMonthView /\ id \in ItemIds(ItemsOf(variableExpensesByMonth, activeTab))
  /\ Edit(handleVariableExpenseNameChange(World, activeTab, id, value))

RemoveVariableExpense(id) ==
  /\ isMonthView /\ id \in ItemIds(ItemsOf(variableExpensesByMonth, activeTab))
  /\ Edit(handleRemoveVariableExpense(World, activeTab, id))

\* the selects and buttons of the header and the tabs
ChangeCurrency(code) == code # currencyCode /\ Edit(SetPrim(World, "currencyCode", code))

ChangeLocale(loc) == loc # locale /\ Edit(SetPrim(World, "locale", loc))

\* the period buttons are disabled outside the dashboard
ChangePeriod(p) == isDashboard /\ p # period /\ Edit(SetPrim(World, "period", p))

ClickDashboard == isMonthView /\ Edit(SetPrim(World, "activeTab", Dashboard))

ClickMonthSelect == isDashboard /\ Edit(clickMonthSelect(World))

SelectMonth(nextMonth) == nextMonth # activeMonth /\ Edit(selectMonth(World, nextMonth))

ToggleIncomePanel == isDashboard /\ Edit(SetPrim(World, "showIncomePanel", ~showIncomePanel))

ToggleFixedExpensesPanel ==
  isDashboard /\ Edit(SetPrim(World, "showFixedExpensesPanel", ~showFixedExpensesPanel))

\* every identifier an item of the budget can have in this run
AllIds ==
  ItemIds(incomes) \cup ItemIds(fixedExpenses)
    \cup UNION {ItemIds(variableExpensesByMonth[m]) : m \in DOMAIN variableExpensesByMonth}

(***************************************************************************)
(* The page is loaded again: the component is built anew from local        *)
(* storage.  The timers and the callbacks of the old page are gone; a      *)
(* request already sent still reaches the server.                          *)
(***************************************************************************)
Reload ==
  /\ Commit([InitialWorld(isSupabaseConfigured, localStorage) EXCEPT !.now = now])
  /\ writes' = {[q EXCEPT !.alive = FALSE] : q \in writes}
  /\ newPassword' = <<>> /\ confirmPassword' = <<>>
  /\ message' = "" /\ authError' = "" /\ working' = FALSE
  /\ authRequest' = NoRequest
  /\ UNCHANGED <<remote, issued, lastIssued, isSupabaseConfigured, edits, auths>>

\* the tasks of authentication and synchronisation
SyncNext ==
  \/ \E s \in Users \cup {NoSession} : GetSessionResolved(s)
  \/ \E u \in Users : SignedIn(u)
  \/ SignedOut
  \/ TokenRefreshed
  \/ \E l \in loads : \E outcome \in LoadOutcomes(l.user) : LoadCompletes(l, outcome)
  \/ Tick
  \/ \E t \in timers : TimerFires(t)
  \/ \E q \in writes, failed \in BOOLEAN : WriteCompletes(q, failed)

\* synchronisation, with the edits that reach every effect: an amount, the
\* currency, the month and the tab
Next ==
  \/ SyncNext
  \/ \E id \in AllIds, value \in TypedAmounts : IncomeAmountChange(id, value)
  \/ \E code \in CurrencyCodes : ChangeCurrency(code)
  \/ \E m \in monthTabs : SelectMonth(m)
  \/ ClickDashboard

Spec == Init /\ [][Next]_vars

\* every handler of the user interface, and the reload of the page
NextLocal ==
  \/ \E id \in AllIds, value \in TypedAmounts : IncomeAmountChange(id, value)
  \/ \E id \in AllIds : IncomeAmountBlur(id)
  \/ \E id \in AllIds, value \in TypedNames : IncomeNameChange(id, value)
  \/ AddIncome
  \/ \E id \in AllIds : RemoveIncome(id)
  \/ \E id \in AllIds, value \in TypedAmounts : FixedExpenseAmountChange(id, value)
  \/ \E id \in AllIds : FixedExpenseAmountBlur(id)
  \/ \E id \in AllIds, value \in TypedNames : FixedExpenseNameChange(id, value)
  \/ AddFixedExpense
  \/ \E id \in AllIds : RemoveFixedExpense(id)
  \/ \E value \in TypedAmounts : BonusAmountChange(value)
  \/ BonusAmountBlur
  \/ AddVariableExpense
  \/ \E id \in AllIds, value \in TypedAmounts : VariableExpenseAmountChange(id, value)
  \/ \E id \in AllIds : VariableExpenseAmountBlur(id)
  \/ \E id \in AllIds, value \in TypedNames : VariableExpenseNameChange(id, value)
  \/ \E id \in AllIds : RemoveVariableExpense(id)
  \/ \E code \in CurrencyCodes : ChangeCurrency(code)
  \/ \E loc \in Locales : ChangeLocale(loc)
  \/ \E p \in Periods : ChangePeriod(p)
  \/ ClickDashboard
  \/ ClickMonthSelect
  \/ \E m \in monthTabs : SelectMonth(m)
  \/ ToggleIncomePanel
  \/ ToggleFixedExpensesPanel
  \/ Reload

SpecLocal == InitLocal /\ [][NextLocal]_vars

(***************************************************************************)
(* The derived values of a render: the totals and the figures of the       *)
(* summary cards.  A total is a number of hundredths, or NaN; a display    *)
(* value is a number of hundredths over 40 (the rate is in tenths and the  *)
(* period factor in quarters), or NaN.                                     *)
(***************************************************************************)
\* a JavaScript number: NaN, or the exact value num
NaNValue == [nan |-> TRUE, num |-> 0]
Num(n) == [nan |-> FALSE, num |-> n]

\* a stored amount as a number
BaseNumber(base) == IF base = NaN THEN NaNValue ELSE Num(base)

Plus(a, b) == IF a.nan \/ b.nan THEN NaNValue ELSE Num(a.num + b.num)
Minus(a, b) == IF a.nan \/ b.nan THEN NaNValue ELSE Num(a.num - b.num)
Times(a, k) == IF a.nan THEN NaNValue ELSE Num(a.num * k)

RECURSIVE SumBase(_)
\* items.reduce((total, item) => total + item.amountBaseUsd, 0)
SumBase(items) ==
  IF items = <<>> THEN Num(0)
  ELSE Plus(SumBase(SubSeq(items, 1, Len(items) - 1)),
            BaseNumber(items[Len(items)].amountBaseUsd))

RECURSIVE SumOver(_, _)
\* Object.values(obj).reduce((total, v) => total + f(v), 0), for the months ms
\* of the object and the value each contributes
SumOver(ms, valueOf) ==
  IF ms = {} THEN Num(0)
  ELSE LET m == CHOOSE x \in ms : TRUE
       IN Plus(SumOver(ms \ {m}, valueOf), valueOf[m])

\* currencies[].symbol
Symbol(code) == IF code = "GTQ" THEN "Q" ELSE "$"

incomeTotalBaseUsd(w) == SumBase(w.incomes)

fixedExpensesTotalBaseUsd(w) == SumBase(w.fixedExpenses)

\* normalizeBonus(monthlyBonuses[activeMonth])
activeBonus(w) ==
  IF w.activeMonth \in DOMAIN w.monthlyBonuses
  THEN normalizeBonus(w.monthlyBonuses[w.activeMonth])
  ELSE [amountBaseUsd |-> 0, amountInput |-> <<"0">>]

bonusSumBaseUsd(w) ==
  SumOver(DOMAIN w.monthlyBonuses,
          [m \in DOMAIN w.monthlyBonuses |->
             BaseNumber(normalizeBonus(w.monthlyBonuses[m]).amountBaseUsd)])

\* variableExpensesByMonth[activeMonth] ?? []
activeVariableExpenses(w) == ItemsOf(w.variableExpensesByMonth, w.activeMonth)

variableExpensesTotalBaseUsd(w) == SumBase(activeVariableExpenses(w))

variableExpensesSumBaseUsd(w) ==
  SumOver(DOMAIN w.variableExpensesByMonth,
          [m \in DOMAIN w.variableExpensesByMonth |-> SumBase(w.variableExpensesByMonth[m])])

monthIncomeBaseUsd(w) ==
  Plus(incomeTotalBaseUsd(w), BaseNumber(activeBonus(w).amountBaseUsd))

monthExpensesBaseUsd(w) ==
  Plus(fixedExpensesTotalBaseUsd(w), variableExpensesTotalBaseUsd(w))

monthRemainingBaseUsd(w) == Minus(monthIncomeBaseUsd(w), monthExpensesBaseUsd(w))

\* toDisplayAmount: baseMonthlyValue * rate * periodFactor, over 40
toDisplayAmount(w, base) == Times(base, Rate(w.currencyCode) * PeriodFactor(w.period))

\* value * rate, over 40
TimesRate(w, base) == Times(base, Rate(w.currencyCode) * 4)

\* formatNumber of a display value that may be negative or NaN
formatNumber(value) ==
  IF value.nan THEN <<"N", "a", "N">>
  ELSE IF value.num < 0 THEN <<"-">> \o FormatNumber(-value.num, 40)
  ELSE FormatNumber(value.num, 40)

\* formatCurrency: `${symbol}${formatNumber(value)}`
formatCurrency(w, value) == <<Symbol(w.currencyCode)>> \o formatNumber(value)

\* the yearly income of the dashboard, as it would be with every bonus paid
\* each month
dashboardIncomeValueBonusEachMonth(w) ==
  IF w.period = "yearly"
  THEN Plus(TimesRate(w, Times(incomeTotalBaseUsd(w), 12)),
            TimesRate(w, Times(bonusSumBaseUsd(w), 12)))
  ELSE toDisplayAmount(w, incomeTotalBaseUsd(w))

\* the argument of formatCurrency in dashboardIncomeDisplay
dashboardIncomeValue(w) ==
  IF w.period = "yearly"
  THEN Plus(TimesRate(w, Times(incomeTotalBaseUsd(w), 12)),
            TimesRate(w, bonusSumBaseUsd(w)))
  ELSE toDisplayAmount(w, incomeTotalBaseUsd(w))

\* the argument of formatCurrency in dashboardExpensesDisplay
dashboardExpensesValue(w) ==
  IF w.period = "yearly"
  THEN TimesRate(w, Plus(Times(fixedExpensesTotalBaseUsd(w), 12),
                         variableExpensesSumBaseUsd(w)))
  ELSE toDisplayAmount(w, Plus(fixedExpensesTotalBaseUsd(w),
                               variableExpensesTotalBaseUsd(w)))

\* the remaining of the dashboard as it would be with the bonus of the
\* active month counted in
dashboardRemainingValueWithBonus(w) ==
  toDisplayAmount(w, Minus(Minus(monthIncomeBaseUsd(w), fixedExpensesTotalBaseUsd(w)),
                           variableExpensesTotalBaseUsd(w)))

\* the argument of formatCurrency in dashboardRemainingDisplay
dashboardRemainingValue(w) ==
  IF w.period = "yearly"
  THEN TimesRate(w, Minus(Minus(Plus(Times(incomeTotalBaseUsd(w), 12),
                                     bonusSumBaseUsd(w)),
                                Times(fixedExpensesTotalBaseUsd(w), 12)),
                          variableExpensesSumBaseUsd(w)))
  ELSE toDisplayAmount(w, Minus(Minus(incomeTotalBaseUsd(w),
                                      fixedExpensesTotalBaseUsd(w)),
                                variableExpensesTotalBaseUsd(w)))

dashboardIncomeDisplay(w) == formatCurrency(w, dashboardIncomeValue(w))

dashboardExpensesDisplay(w) == formatCurrency(w, dashboardExpensesValue(w))

dashboardRemainingDisplay(w) == formatCurrency(w, dashboardRemainingValue(w))

monthIncomeTotalDisplay(w) == formatCurrency(w, toDisplayAmount(w, monthIncomeBaseUsd(w)))

monthExpensesTotalDisplay(w) == formatCurrency(w, toDisplayAmount(w, monthExpensesBaseUsd(w)))

monthRemainingDisplay(w) == formatCurrency(w, toDisplayAmount(w, monthRemainingBaseUsd(w)))

\* the three figures of the summary cards of the view that is shown
SummaryFigures(w) ==
  IF w.activeTab = Dashboard
  THEN [income |-> dashboardIncomeDisplay(w),
        expenses |-> dashboardExpensesDisplay(w),
        remaining |-> dashboardRemainingDisplay(w)]
  ELSE [income |-> monthIncomeTotalDisplay(w),
        expenses |-> monthExpensesTotalDisplay(w),
        remaining |-> monthRemainingDisplay(w)]

(***************************************************************************)
(* The app without a backend, started on a budget an earlier run saved     *)
(* under each currency and period: every amount, figure and view.          *)
(***************************************************************************)
\* the budget of the saved state: an income typed as 4.68 a week and a fixed
\* expense typed as 4.68 a year, both in dollars, a bonus and a variable
\* expense in each of two months
ViewDoc(code, p, tab) ==
  [incomes |->
     Reformat(<< Item("income-1", "Paycheck", 1872, <<>>),
                 Item("income-2", "Side gig", 0, <<>>) >>, code, p),
   fixedExpenses |->
     Reformat(<< Item("expense-1", "Rent", 39, <<>>),
                 Item("expense-2", "Utilities", 0, <<>>) >>, code, p),
   monthlyBonuses |->
     [m \in monthTabs |->
        [amountBaseUsd |-> IF m = "Jan" THEN 500 ELSE 6000,
         amountInput |-> formatDisplayAmount(IF m = "Jan" THEN 500 ELSE 6000, code, "monthly")]],
   variableExpensesByMonth |->
     [m \in monthTabs |->
        Reformat(IF m = "Jan"
                 THEN << Item("variable-1", "New variable", 24000, <<>>) >>
                 ELSE << Item("variable-2", "New variable", 3900, <<>>) >>, code, p)],
   currencyCode |-> code, period |-> p,
   activeTab |-> tab, activeMonth |-> "Jan",
   showIncomePanel |-> TRUE, showFixedExpensesPanel |-> TRUE,
   locale |-> "en"]

\* the views a state is saved in: the dashboard in any period, a month view
\* in the monthly one
InitView ==
  \E code \in CurrencyCodes, p \in Periods, tab \in {Dashboard, "Jan"} :
    /\ tab = Dashboard \/ p = "monthly"
    /\ InitWith(FALSE, Entry(ToJson(ViewDoc(code, p, tab))), [u \in Users |-> NoRow])

SpecView == InitView /\ [][NextLocal]_vars

(***************************************************************************)
(* The debounced write (C1, C2).                                           *)
(***************************************************************************)
\* the timer the debounced upsert effect arms in the state reached
ArmedTimer ==
  [id |-> pendingSyncRef', user |-> session', payload |-> Persisted',
   delay |-> DebounceMs, age |-> 0, stale |-> FALSE]

\* the persisted state changes while a user is signed in and the load is done
ChangeWhileSynced ==
  /\ session # NoSession /\ syncReady
  /\ session' = session /\ syncReady'
  /\ Persisted' # Persisted

\* a write is issued in this step
WriteIssued == issued' # issued

\* C1: while a user is signed in and the initial load has completed, every
\* change of the persisted state cancels the pending timer and starts a new
\* timer of 800 ms, so the only timer pending afterwards is the new one; at
\* most one timer is pending at any time; and a write is issued only by a
\* timer armed 800 ms ago with no change of the persisted state since.
C1_Debounce ==
  [][ /\ Cardinality(timers) <= 1 /\ Cardinality(timers') <= 1
      /\ ChangeWhileSynced => timers' = {ArmedTimer}
      /\ WriteIssued =>
            \E t \in timers :
              /\ t \notin timers'
              /\ t.delay = DebounceMs /\ t.age >= DebounceMs /\ ~t.stale
              /\ \E q \in writes' \ writes : q.payload = t.payload ]_vars

\* a second timer was armed by an edit before the first one was due: the
\* first was cancelled, and no write has been issued
C1_Rearmed ==
  /\ session # NoSession /\ syncReady
  /\ edits = 1 /\ auths = 1 /\ issued = 0
  /\ \E t \in timers : t.id = 2 /\ t.age = 0 /\ t.payload = Persisted

\* the load for the signed-in user is in flight
LoadInFlight ==
  /\ session # NoSession
  /\ \E l \in loads : l.isMounted /\ l.user = session

\* C2: from sign-in until the remote load for that user has completed, no
\* write timer is pending and no write is issued.
C2_NoWriteBeforeLoad ==
  [][ /\ LoadInFlight => timers = {} /\ ~WriteIssued
      /\ LoadInFlight' => timers' = {} ]_vars

\* an edit was made while the load was in flight, and nothing is scheduled
C2_EditDuringLoad ==
  /\ LoadInFlight /\ edits = 1 /\ timers = {} /\ issued = 0
  /\ localStorage \notin InitialEntries

(***************************************************************************)
(* The remote load and the sign-out (C3, C4).                              *)
(***************************************************************************)
\* what a list of items holds: ids, names and base amounts.  The amount
\* texts (amountInput) are display text, which the re-format effect derives
\* again from the base amounts
ItemContent(items) ==
  AsSeq([i \in 1..Len(items) |->
     [id |-> items[i].id, name |-> items[i].name,
      amountBaseUsd |-> items[i].amountBaseUsd]])

\* what the value v of the field f holds
ContentOf(f, v) ==
  CASE f \in {"incomes", "fixedExpenses"} -> ItemContent(v)
    [] f = "monthlyBonuses" -> AsObject([m \in DOMAIN v |-> v[m].amountBaseUsd])
    [] f = "variableExpensesByMonth" -> AsObject([m \in DOMAIN v |-> ItemContent(v[m])])
    [] OTHER -> v

\* the answer to the load of the signed-in user arrives without an error
LoadSucceeds ==
  /\ session # NoSession /\ session' = session
  /\ \E l \in loads : l.isMounted /\ l.user = session /\ loads' = loads \ {l}
  /\ syncError' # "load failed"

\* C3: when the load of the signed-in user completes and the row holds a
\* document, every field present in the document has replaced the local
\* value and every absent field keeps its local value; with no row the local
\* state is left as it is.
C3_LoadApplies ==
  [][ LoadSucceeds =>
        IF remote[session].exists
        THEN \A f \in PersistedFields :
               ContentOf(f, World'[f]) =
                 IF HasField(remote[session].state, f)
                 THEN ContentOf(f, StoredValue(remote[session].state, f))
                 ELSE ContentOf(f, World[f])
        ELSE Persisted' = Persisted ]_vars

\* the document without a locale was loaded over a Spanish local state that
\* had been edited before the answer arrived: the document's fields are in
\* force and the locale is still the local one
C3_LoadedOverEdit ==
  /\ session = "u1" /\ syncReady /\ edits = 1
  /\ remote["u1"] = Row(OldDoc)
  /\ locale = "es"
  /\ activeTab = "Feb" /\ activeMonth = "Feb" /\ currencyCode = "USD"
  /\ ItemContent(incomes) = ItemContent(OldDoc.incomes)
  /\ ContentOf("variableExpensesByMonth", variableExpensesByMonth) =
       ContentOf("variableExpensesByMonth", OldDoc.variableExpensesByMonth)

\* C4: whenever the session goes from signed in to signed out, the incomes
\* and the fixed expenses become the two default entries, all with amount
\* 0, and the monthly bonuses and the variable expenses become empty.
C4_SignOutResets ==
  [][ (session # NoSession /\ session' = NoSession) =>
        /\ incomes' = buildDefaultIncomes(locale')
        /\ fixedExpenses' = buildDefaultFixedExpenses(locale')
        /\ Len(incomes') = 2 /\ Len(fixedExpenses') = 2
        /\ \A i \in 1..2 : incomes'[i].amountBaseUsd = 0 /\ fixedExpenses'[i].amountBaseUsd = 0
        /\ monthlyBonuses' = <<>>
        /\ variableExpensesByMonth' = <<>> ]_vars

\* the user signed out after the document in quetzales, with its bonus, had
\* been loaded: the currency is still that of the document, the data is not
C4_SignedOutAfterLoad ==
  /\ session = NoSession /\ previousSessionRef = NoSession /\ auths >= 1 /\ edits = 0
  /\ currencyCode = "GTQ" /\ activeMonth = "Feb"
  /\ incomes = buildDefaultIncomes(locale)
  /\ monthlyBonuses = <<>>

(***************************************************************************)
(* The order of the writes (C5).                                           *)
(***************************************************************************)
\* every write issued for the user u has completed, the last one with success
AllWritesDone(u) ==
  /\ lastIssued[u].seq > 0
  /\ lastIssued[u].status = "ok"
  /\ \A q \in writes : q.user # u

\* C5 as stated: when every write issued for a user has completed, the row
\* holds the payload of the write issued last, whatever the order in which
\* the requests completed.
C5_LastIssuedWins ==
  \A u \in Users :
    AllWritesDone(u) => remote[u] = Row(ToJson(lastIssued[u].payload))

\* when the writes of a user complete in the order of issue, the row holds
\* the payload of the write issued last
C5_LastIssuedWinsInOrder ==
  \A u \in Users :
    (AllWritesDone(u) /\ ~lastIssued[u].overtook) =>
      remote[u] = Row(ToJson(lastIssued[u].payload))

\* two writes were issued for a user, the second after an edit, and they
\* completed in the order of issue
C5_TwoWritesInOrder ==
  \E u \in Users :
    /\ AllWritesDone(u) /\ ~lastIssued[u].overtook
    /\ lastIssued[u].seq = 2 /\ edits = 1
    /\ lastIssued[u].payload = Persisted
    /\ remote[u] = Row(ToJson(Persisted))

(***************************************************************************)
(* A failed write (C6).                                                    *)
(***************************************************************************)
\* a write of the payload of the write issued last for u is in flight or
\* scheduled
RetryPending(u) ==
  \/ \E q \in writes : q.user = u /\ q.payload = lastIssued[u].payload
  \/ \E t \in timers : t.user = u /\ t.payload = lastIssued[u].payload

LastWriteFails(u) ==
  /\ lastIssued[u].seq > 0 /\ lastIssued[u].status = "sent"
  /\ lastIssued'[u].status = "failed"

C7_OwnRowOnly ==
  [][ /\ \A l \in loads' \ loads : l.isMounted => l.user = session'
      /\ \A q \in writes' :
            (\A o \in writes : o.seq # q.seq) => q.user = session /\ q.user = session'
      /\ \A u \in Users :
            remote'[u] # remote[u] =>
              \E q \in writes \ writes' : q.user = u /\ remote'[u] = Row(ToJson(q.payload))
      /\ DOMAIN remote' = Users ]_vars

\* the second user wrote a row while the row of the first is as it was
C7_SecondUserWrote ==
  /\ session = "u2"
  /\ lastIssued["u2"].seq > 0 /\ lastIssued["u2"].status = "ok"
  /\ remote["u2"].exists
  /\ remote["u1"] \in InitialRows
  /\ lastIssued["u1"].seq = 0

(***************************************************************************)
(* Local storage (C8, C9, C10).                                            *)
(***************************************************************************)
\* the entry of local storage is the serialisation of the persisted state
StorageMirrors == localStorage = Entry(ToJson(Persisted))

\* C8: when the backend is not configured no session is set, no remote read
\* or write is issued or scheduled, the auth check has ended, the sync
\* status is idle, and the state is saved to local storage.
C8_LocalOnly ==
  ~isSupabaseConfigured =>
    /\ session = NoSession
    /\ loads = {} /\ timers = {} /\ writes = {} /\ issued = 0
    /\ \A u \in Users : lastIssued[u].seq = 0
    /\ ~authLoading
    /\ syncStatus = "idle"
    /\ StorageMirrors

\* two edits were made without a backend and are saved
C8_EditedLocally ==
  /\ ~isSupabaseConfigured /\ edits = 2
  /\ currencyCode = "GTQ" /\ activeTab # Dashboard
  /\ localStorage.json.currencyCode = "GTQ"

\* C9: once the effects have run, the entry of local storage is the
\* serialisation of the current persisted state, signed in or not.
C9_StorageMirrorsState == StorageMirrors

\* a remote document was loaded and then edited, and the entry follows
C9_AfterLoadAndEdit ==
  /\ session = "u1" /\ syncReady /\ edits = 1
  /\ remote["u1"] = Row(RemoteDoc)
  /\ activeMonth = "Feb" /\ currencyCode = "USD"
  /\ localStorage.json.currencyCode = "USD"
  /\ localStorage.json.activeMonth = "Feb"

\* what C10 lists of a state: ids, names and base amounts of the items, the
\* currency, the active tab and month, the panel flags and the locale
RoundTripFields == PersistedFields \ {"period"}

Restored(w, v) == \A f \in RoundTripFields : ContentOf(f, w[f]) = ContentOf(f, v[f])

\* C10 as stated: the app started on the entry this run wrote has the ids,
\* names and base amounts, the currency, the active tab and month, the panel
\* flags and the locale of the state that was saved; started on an absent
\* or unparsable entry it has the default state.
C10_RoundTrip ==
  /\ Restored(Mounted(isSupabaseConfigured, localStorage), World)
  /\ buildStoredState(Mounted(isSupabaseConfigured, Unparsable)) =
       buildStoredState(Mounted(isSupabaseConfigured, NoEntry))
  /\ Mounted(isSupabaseConfigured, NoEntry).incomes = buildDefaultIncomes("en")
  /\ Mounted(isSupabaseConfigured, NoEntry).fixedExpenses = buildDefaultFixedExpenses("en")

(***************************************************************************)
(* Amounts and their display (C11, C12).                                   *)
(***************************************************************************)
\* the number a typed text stands for: '' is 0, otherwise Number(text)
TypedValue(text) == IF text = <<>> THEN Num(0) ELSE BaseNumber(NumberOf(text))

\* the amount of the entry was typed in this step: its text is a typed text
\* and the entry is not as it was
AmountTyped(old, new) ==
  /\ new # old
  /\ \E v \in TypedAmounts : new.amountInput = sanitizeAmountInput(v)

\* the entry stores the typed value over rate x factor, its display value is
\* the typed value, and the text it is formatted to is that of the typed value
ShowsTyped(w, new) ==
  /\ toDisplayAmount(w, BaseNumber(new.amountBaseUsd)) = Times(TypedValue(new.amountInput), 40)
  /\ formatNumber(toDisplayAmount(w, BaseNumber(new.amountBaseUsd))) =
       formatNumber(Times(TypedValue(new.amountInput), 40))
  /\ formatDisplayAmount(new.amountBaseUsd, w.currencyCode, w.period) =
       formatNumber(Times(TypedValue(new.amountInput), 40))

\* the user edits something under a currency and period that stay in force
EditInPlace ==
  /\ edits' = edits + 1
  /\ currencyCode' = currencyCode /\ period' = period
  /\ activeTab' = activeTab /\ activeMonth' = activeMonth

\* the entries of the list new whose amount was typed in this step show it
TypedItemsShow(old, new) ==
  Len(new) = Len(old) =>
    \A i \in 1..Len(new) :
      (new[i].id = old[i].id /\ AmountTyped(old[i], new[i])) => ShowsTyped(World', new[i])

ViewChanged ==
  /\ edits' = edits + 1
  /\ \/ currencyCode' # currencyCode \/ period' # period
     \/ activeMonth' # activeMonth \/ locale' # locale

\* C12: changing the currency, the period, the active month or the locale
\* changes no id, name or base amount of an income, fixed expense, bonus or
\* variable expense; the amount texts are derived again from the base
\* amounts (when the currency, the period or the active month changed).
C12_ViewChangeKeepsAmounts ==
  [][ ViewChanged =>
        /\ \A f \in RefFields : ContentOf(f, World'[f]) = ContentOf(f, World[f])
        /\ IF currencyCode' # currencyCode \/ period' # period \/ activeMonth' # activeMonth
           THEN /\ incomes' = Reformat(incomes, currencyCode', period')
                /\ fixedExpenses' = Reformat(fixedExpenses, currencyCode', period')
                /\ monthlyBonuses' =
                     ReformatBonus(monthlyBonuses, activeMonth', currencyCode', period')
                /\ variableExpensesByMonth' =
                     AsObject([m \in DOMAIN variableExpensesByMonth |->
                        Reformat(variableExpensesByMonth[m], currencyCode', period')])
           ELSE /\ incomes' = incomes /\ fixedExpenses' = fixedExpenses
                /\ monthlyBonuses' = monthlyBonuses
                /\ variableExpensesByMonth' = variableExpensesByMonth ]_vars

\* February was selected and the amounts are shown in quetzales: the income
\* is still 18.72 dollars a month and reads 146.02, the bonus of February
\* reads 468
C12_FebruaryInQuetzales ==
  /\ activeMonth = "Feb" /\ activeTab = "Feb" /\ currencyCode = "GTQ" /\ edits >= 1
  /\ Len(incomes) = 2
  /\ incomes[1].amountBaseUsd = 1872
  /\ incomes[1].amountInput = <<"1", "4", "6", ".", "0", "2">>
  /\ "Feb" \in DOMAIN monthlyBonuses
  /\ monthlyBonuses["Feb"].amountBaseUsd = 6000
  /\ monthlyBonuses["Feb"].amountInput = <<"4", "6", "8">>


(***************************************************************************)
(* The figures of the summary cards (C13, C14).                            *)
(***************************************************************************)
\* the number a figure reads as: the text without the currency symbol and
\* the grouping commas, in hundredths
ReadFigure(text) ==
  IF \E i \in 1..Len(text) : text[i] = "N" THEN NaNValue
  ELSE IF \E i \in 1..Len(text) : text[i] = "-"
  THEN Num(-NumberOf(KeepAmountChars(text)))
  ELSE Num(NumberOf(KeepAmountChars(text)))

\* the three values the figures of the view are formatted from
SummaryValues(w) ==
  IF w.activeTab = Dashboard
  THEN [income |-> dashboardIncomeValue(w),
        expenses |-> dashboardExpensesValue(w),
        remaining |-> dashboardRemainingValue(w)]
  ELSE [income |-> toDisplayAmount(w, monthIncomeBaseUsd(w)),
        expenses |-> toDisplayAmount(w, monthExpensesBaseUsd(w)),
        remaining |-> toDisplayAmount(w, monthRemainingBaseUsd(w))]

\* by how many hundredths the Remaining figure is off the difference of the
\* Income and the Expenses figure (0 when a figure is NaN)
FigureGap(w) ==
  LET f == SummaryFigures(w)
      d == Minus(ReadFigure(f.remaining),
                 Minus(ReadFigure(f.income), ReadFigure(f.expenses)))
  IN IF d.nan THEN 0 ELSE d.num

\* C13 as stated: in the view that is shown the Remaining figure reads as
\* the Income figure minus the Expenses figure.
C13_RemainingIsDifference ==
  LET f == SummaryFigures(World)
  IN ReadFigure(f.remaining) = Minus(ReadFigure(f.income), ReadFigure(f.expenses))

\* C13: in the view that is shown the value of Remaining is the value of
\* Income minus the value of Expenses; each of the three is rounded to two
\* fraction digits on its own, so the Remaining figure is within one
\* hundredth of the difference of the two figures beside it.
C13_RemainingIsDifferenceBeforeRounding ==
  /\ SummaryValues(World).remaining =
       Minus(SummaryValues(World).income, SummaryValues(World).expenses)
  /\ FigureGap(World) \in {-1, 0, 1}
  /\ \A k \in {"income", "expenses", "remaining"} :
       SummaryFigures(World)[k] = formatCurrency(World, SummaryValues(World)[k])

\* the monthly dashboard in quetzales after an edit, the three figures one
\* hundredth apart
C13_OffByOneHundredth ==
  /\ activeTab = Dashboard /\ period = "monthly" /\ currencyCode = "GTQ" /\ edits >= 1
  /\ ~SummaryValues(World).remaining.nan
  /\ FigureGap(World) # 0

\* the sum of the base amounts of a list, all of them numbers
RECURSIVE Total(_)
Total(items) ==
  IF items = <<>> THEN 0 ELSE Head(items).amountBaseUsd + Total(Tail(items))

RECURSIVE TotalOfMonths(_, _)
\* the sum over the months ms of what each contributes
TotalOfMonths(ms, amountOf) ==
  IF ms = {} THEN 0
  ELSE LET m == CHOOSE x \in ms : TRUE IN amountOf[m] + TotalOfMonths(ms \ {m}, amountOf)

\* no stored amount is NaN
AmountsAreNumbers ==
  /\ \A i \in 1..Len(incomes) : incomes[i].amountBaseUsd # NaN
  /\ \A i \in 1..Len(fixedExpenses) : fixedExpenses[i].amountBaseUsd # NaN
  /\ \A m \in DOMAIN monthlyBonuses : monthlyBonuses[m].amountBaseUsd # NaN
  /\ \A m \in DOMAIN variableExpensesByMonth :
       \A i \in 1..Len(variableExpensesByMonth[m]) :
         variableExpensesByMonth[m][i].amountBaseUsd # NaN

\* every bonus once, and every variable expense of every month once
AllBonuses ==
  TotalOfMonths(DOMAIN monthlyBonuses,
                [m \in DOMAIN monthlyBonuses |-> monthlyBonuses[m].amountBaseUsd])

AllVariableExpenses ==
  TotalOfMonths(DOMAIN variableExpensesByMonth,
                [m \in DOMAIN variableExpensesByMonth |-> Total(variableExpensesByMonth[m])])

\* C14: on the yearly dashboard income is 12 times the income sources plus
\* every bonus once, and expenses are 12 times the fixed expenses plus the
\* variable expenses of every month once, all times the currency rate; on
\* the monthly and the weekly dashboard income is the income sources, and
\* expenses are the fixed expenses plus the variable expenses of the active
\* month, times the rate and the period factor.  (Values over 40: the rate
\* is in tenths, the factor in quarters.)
C14_DashboardTotals ==
  AmountsAreNumbers =>
    IF period = "yearly"
    THEN /\ dashboardIncomeValue(World) =
              Num((12 * Total(incomes) + AllBonuses) * Rate(currencyCode) * 4)
         /\ dashboardExpensesValue(World) =
              Num((12 * Total(fixedExpenses) + AllVariableExpenses) * Rate(currencyCode) * 4)
    ELSE /\ dashboardIncomeValue(World) =
              Num(Total(incomes) * Rate(currencyCode) * PeriodFactor(period))
         /\ dashboardExpensesValue(World) =
              Num((Total(fixedExpenses) + Total(ItemsOf(variableExpensesByMonth, activeMonth)))
                    * Rate(currencyCode) * PeriodFactor(period))

\* the yearly dashboard in dollars after the first income was typed as 468 a
\* year: income is 468 + 5 + 60, expenses 12 x 0.39 + 240 + 39
C14_YearlyWithBonuses ==
  /\ activeTab = Dashboard /\ period = "yearly" /\ currencyCode = "USD" /\ edits >= 1
  /\ AmountsAreNumbers
  /\ Len(incomes) = 2 /\ incomes[1].amountBaseUsd = 3900 /\ incomes[2].amountBaseUsd = 0
  /\ DOMAIN monthlyBonuses = {"Jan", "Feb"}
  /\ dashboardIncomeDisplay(World) = <<"$", "5", "3", "3">>
  /\ dashboardExpensesDisplay(World) = <<"$", "2", "8", "3", ".", "6", "8">>

(***************************************************************************)
(* The bonus of a month (C15).                                             *)
(***************************************************************************)
\* the user changes the bonus field of the month view (types or leaves it)
BonusEdited ==
  /\ EditInPlace
  /\ activeTab # Dashboard
  /\ monthlyBonuses' # monthlyBonuses

\* C15: the bonuses are one entry a month; entering a bonus amount in the
\* view of a month sets the entry of that month and leaves the entries of
\* the other months, the incomes and every expense as they were.
C15_BonusOfOneMonth ==
  [][ BonusEdited =>
        /\ DOMAIN monthlyBonuses' = DOMAIN monthlyBonuses \cup {activeTab}
        /\ DOMAIN monthlyBonuses' \subseteq monthTabs
        /\ \A m \in DOMAIN monthlyBonuses : m # activeTab => monthlyBonuses'[m] = monthlyBonuses[m]
        /\ incomes' = incomes /\ fixedExpenses' = fixedExpenses
        /\ variableExpensesByMonth' = variableExpensesByMonth ]_vars

\* the bonus of January was typed as 468 and the bonus of February is the
\* 60 it was
C15_JanuaryBonusTyped ==
  /\ activeTab = "Jan" /\ currencyCode = "USD" /\ edits = 1
  /\ DOMAIN monthlyBonuses = {"Jan", "Feb"}
  /\ monthlyBonuses["Jan"] = [amountBaseUsd |-> 46800, amountInput |-> <<"4", "6", "8">>]
  /\ monthlyBonuses["Feb"].amountBaseUsd = 6000


(***************************************************************************)
(* What is written, and when (C16, C17, C18).                              *)
(***************************************************************************)
\* the timers are served: time passes while a timer is not due, and a timer
\* that is due fires
SpecLive ==
  /\ Spec
  /\ WF_vars(Tick)
  /\ WF_vars(\E t \in timers : TimerFires(t))

\* a timer that carries the current state is pending for the signed-in user
UnsentChange ==
  /\ session # NoSession /\ syncReady
  /\ \E t \in timers : t.user = session /\ t.payload = Persisted

\* the write issued last for the signed-in user carries the current state
IssuedCurrent ==
  /\ session # NoSession
  /\ lastIssued[session].seq > 0
  /\ lastIssued[session].payload = Persisted

\* as many writes as a run can issue
MaxIssued == MaxEdits + MaxAuth + 2

\* C16: a change of the persisted state by the user, signed in with the
\* load completed, leaves a timer that carries the new state; and while the
\* user stays signed in a pending timer that carries the current state leads
\* to a further write, issued with the state that is current then.
C16_ChangeIsWritten ==
  /\ [][ (ChangeWhileSynced /\ edits' # edits) =>
           \E t \in timers' : t.user = session' /\ t.payload = Persisted' ]_vars
  /\ \A n \in 0..MaxIssued :
       (UnsentChange /\ issued = n) ~> ((IssuedCurrent /\ issued > n) \/ session = NoSession)

\* the user changed the currency after the load and the write that carries
\* the change was issued
C16_ChangeWritten ==
  /\ session = "u1" /\ syncReady /\ edits = 1 /\ issued >= 1
  /\ IssuedCurrent
  /\ lastIssued["u1"].payload.currencyCode # remote["u1"].state.currencyCode
  /\ remote["u1"] \in InitialRows

\* C17: whenever a write is issued its payload is the persisted state of
\* that moment, and it is issued for the signed-in user.
C17_WritesCurrentState ==
  [][ WriteIssued =>
        \E q \in writes' \ writes :
          /\ q.payload = Persisted /\ q.payload = Persisted'
          /\ q.user = session ]_vars

\* the write of an edit made after the load of the document in quetzales is
\* in flight and carries the edit
C17_EditInFlight ==
  /\ session = "u1" /\ edits = 1 /\ remote["u1"] = Row(RemoteDoc)
  /\ currencyCode = "USD" /\ timers = {} /\ syncStatus = "saving"
  /\ \E q \in writes : q.seq = issued /\ q.user = "u1" /\ q.payload = Persisted

\* C18: no write is issued while no user is signed in, and no timer is
\* pending then: a sign-out cancels the timer that is pending.
C18_NoWriteSignedOut ==
  [][ /\ session = NoSession => (timers = {} /\ ~WriteIssued)
      /\ session' = NoSession => timers' = {}
      /\ WriteIssued => \A q \in writes' \ writes : q.user = session /\ q.user # NoSession ]_vars

\* the currency was changed after the load of the document in quetzales and
\* the user signed out before the timer of the change was due: nothing was
\* written
C18_SignedOutBeforeDue ==
  /\ session = NoSession /\ edits = 1 /\ auths >= 1
  /\ remote["u1"] = Row(RemoteDoc) /\ activeMonth = "Feb" /\ currencyCode = "USD"
  /\ pendingSyncRef # NoTimer
  /\ issued = 0 /\ timers = {} /\ writes = {}

(***************************************************************************)
(* The sync status (C19, C20).                                             *)
(***************************************************************************)
\* C19 as stated: whenever a user is signed in and the sync status is idle,
\* no write is pending or in flight and the row of the user holds the local
\* persisted state.
C19_IdleMeansSaved ==
  (session # NoSession /\ syncStatus = "idle") =>
    /\ timers = {}
    /\ \A q \in writes : q.user # session
    /\ remote[session] = Row(ToJson(Persisted))

\* a select request is sent in this step
LoadStarted == \E l \in loads' : l \notin loads

\* the status shows the failure of a write and stops showing it in this step
WriteErrorEnds ==
  /\ syncStatus = "error" /\ syncError = "write failed"
  /\ syncStatus' # "error"

\* a failed write sets the status and the message and nothing else
FailureShown ==
  \A u \in Users :
    LastWriteFails(u) =>
      /\ syncStatus' = "error" /\ syncError' = "write failed"
      /\ Persisted' = Persisted
      /\ localStorage' = localStorage

\* C20 as stated: a write that fails sets the status to error with the
\* message and changes neither the budget state nor the entry of local
\* storage; the error status stays until the next write or load starts.
C20_ErrorUntilNextRequest ==
  [][ /\ FailureShown
      /\ WriteErrorEnds => (WriteIssued \/ LoadStarted) ]_vars

\* C20: a write that fails sets the status to error with the message and
\* changes neither the budget state nor the entry of local storage; the
\* error status stays until the next write or load starts, the user signs
\* out, or another write or a load that was in flight completes.
C20_ErrorUntilNextEvent ==
  [][ /\ FailureShown
      /\ WriteErrorEnds =>
           \/ WriteIssued
           \/ LoadStarted
           \/ session # NoSession /\ session' = NoSession
           \/ \E q \in writes : q \notin writes'
           \/ \E l \in loads : l.isMounted /\ l \notin loads' ]_vars

\* the write of the edit failed: the status shows it, and the state and the
\* entry of local storage are those of the edit
C20_FailedWriteShown ==
  /\ session # NoSession /\ edits = 1
  /\ syncStatus = "error" /\ syncError = "write failed"
  /\ lastIssued[session].seq > 0 /\ lastIssued[session].status = "failed"
  /\ lastIssued[session].payload = Persisted
  /\ localStorage = Entry(ToJson(Persisted))
  /\ remote[session] # Row(ToJson(Persisted))

(***************************************************************************)
(* The load that fails, and the load that is applied (C21, C22).           *)
(***************************************************************************)
\* the answer to the load of the signed-in user is an error
LoadFails ==
  /\ session # NoSession /\ session' = session
  /\ \E l \in loads : l.isMounted /\ l.user = session /\ loads' = loads \ {l}
  /\ syncError' = "load failed"

\* C21 as stated: when the load of the signed-in user fails the status
\* becomes error with the message and the local state is unchanged, and no
\* write is scheduled or issued as long as the user has changed nothing.
C21_FailedLoadWritesNothing ==
  [][ /\ LoadFails =>
           /\ syncStatus' = "error" /\ syncError' = "load failed"
           /\ Persisted' = Persisted
           /\ edits = 0 => timers' = {}
      /\ (WriteIssued /\ syncError = "load failed") => edits > 0 ]_vars

\* the answer to the load of the signed-in user arrives with a document
LoadApplied == LoadSucceeds /\ remote[session].exists

\* C22 as stated: the load that applies a document schedules no write,
\* whatever the local and the remote currency, period, tab and month are.
C22_AppliedLoadWritesNothing ==
  [][ LoadApplied => (timers' = {} /\ ~WriteIssued) ]_vars

(***************************************************************************)
(* The answer that comes too late (C23).                                   *)
(***************************************************************************)
\* the answer to the select request l arrives in this step, and the user it
\* was sent for is no longer the one signed in
LateAnswer(l) ==
  /\ l \in loads /\ loads' = loads \ {l}
  /\ session = NoSession \/ l.user # session

\* C23: the answer to a load that arrives after the user signed out, or
\* after another user signed in, changes neither the budget state nor the
\* sync status, the sync error or the ready flag (nor the entry of local
\* storage, nor the timers).
C23_LateAnswerIgnored ==
  [][ \A l \in loads :
        LateAnswer(l) =>
          /\ Persisted' = Persisted
          /\ syncStatus' = syncStatus /\ syncError' = syncError
          /\ syncReady' = syncReady
          /\ localStorage' = localStorage /\ timers' = timers ]_vars

\* the first user signed out and the second signed in; the answer to the
\* load of the first has arrived since and was not applied, and the load of
\* the second is still in flight
C23_AnswerAfterSecondSignIn ==
  /\ session = "u2" /\ auths = 2 /\ edits = 0
  /\ loads = {[user |-> "u2", isMounted |-> TRUE]}
  /\ syncStatus = "loading" /\ syncError = NoError /\ ~syncReady
  /\ activeMonth = "Jan" /\ currencyCode = "USD"
  /\ pendingSyncRef = NoTimer
  /\ remote["u1"].exists

(***************************************************************************)
(* The status and the message (C24, C25).                                  *)
(***************************************************************************)
\* C24 as stated: while no user is signed in the sync status is idle and
\* there is no sync error, whatever was in flight at the sign-out.
C24_SignedOutIsIdle ==
  session = NoSession => (syncStatus = "idle" /\ syncError = NoError)

\* C25 as stated: the sync status is error exactly when a sync error
\* message is recorded.
C25_ErrorIffMessage == (syncStatus = "error") <=> (syncError # NoError)

(***************************************************************************)
(* What a sign-out leaves behind (C26).                                    *)
(***************************************************************************)
\* the entries of the four lists of the document d: items and bonuses
EntriesOf(d) ==
  {d.incomes[i] : i \in 1..Len(d.incomes)}
    \cup {d.fixedExpenses[i] : i \in 1..Len(d.fixedExpenses)}
    \cup {d.monthlyBonuses[m] : m \in DOMAIN d.monthlyBonuses}
    \cup UNION {{d.variableExpensesByMonth[m][i] : i \in 1..Len(d.variableExpensesByMonth[m])} :
                 m \in DOMAIN d.variableExpensesByMonth}

\* the document d holds no amount: every entry is 0 and reads 0
HoldsNoAmount(d) ==
  \A e \in EntriesOf(d) : e.amountBaseUsd = 0 /\ e.amountInput = <<"0">>

\* the four lists as they stand
Lists == [f \in RefFields |-> World[f]]

\* C26: the step of a sign-out leaves no amount in the state and in the
\* entry of local storage; while nobody is signed in nothing but an edit
\* changes the lists, and the load of a user without a row leaves them as
\* they are.  So where nothing was typed, whenever the first user is not
\* signed in no amount of the document of the first user is in the state,
\* in the entry or in the row of the second user.
C26_SignOutForgets ==
  /\ [][ /\ (session # NoSession /\ session' = NoSession) =>
              /\ HoldsNoAmount(Persisted')
              /\ localStorage' = Entry(ToJson(Persisted'))
         /\ (session = NoSession /\ edits' = edits) => Lists' = Lists
         /\ (LoadSucceeds /\ ~remote[session].exists) => Lists' = Lists ]_vars
  /\ []( (edits = 0 /\ session # "u1") =>
            /\ HoldsNoAmount(Persisted)
            /\ localStorage.kind = "json" => HoldsNoAmount(localStorage.json)
            /\ remote["u2"].exists => HoldsNoAmount(remote["u2"].state) )

\* the first user signed out after the document in quetzales was loaded,
\* the second signed in and the load found no row: the currency and the
\* month of the document are still in force, the state and the entry hold
\* no amount
C26_SecondUserGotNothing ==
  /\ session = "u2" /\ syncReady /\ loads = {} /\ auths = 2 /\ edits = 0
  /\ currencyCode = "GTQ" /\ activeMonth = "Feb"
  /\ remote["u1"] = Row(RemoteDoc) /\ ~remote["u2"].exists
  /\ HoldsNoAmount(Persisted)
  /\ localStorage = Entry(ToJson(Persisted))

(***************************************************************************)
(* The tab and the month (C27): the app with a backend, started on a state *)
(* saved in each view, under the tab clicks, the month selections and the  *)
(* loads.                                                                  *)
(***************************************************************************)
\* the saved state as it is left in the view of the tab, the month select
\* on month
TabDoc(tab, month) == [SavedDoc EXCEPT !.activeTab = tab, !.activeMonth = month]

InitTabs ==
  \E month \in monthTabs, tab \in monthTabs \cup {Dashboard}, row \in InitialRows :
    /\ tab \in {Dashboard, month}
    /\ InitWith(TRUE, Entry(TabDoc(tab, month)), [u \in Users |-> IF u = "u1" THEN row ELSE NoRow])

NextTabs ==
  \/ SyncNext
  \/ ClickDashboard
  \/ ClickMonthSelect
  \/ \E m \in monthTabs : SelectMonth(m)

SpecTabs == InitTabs /\ [][NextTabs]_vars

\* C27: whenever a month view is shown the active tab is the active month,
\* so the bonus and the variable expenses the handlers edit (keyed by the
\* tab) are those that are displayed and summed (keyed by the month).
C27_TabIsMonth ==
  activeTab # Dashboard =>
    /\ activeTab = activeMonth
    /\ activeTab \in monthTabs
    /\ ItemsOf(variableExpensesByMonth, activeTab) = activeVariableExpenses(World)
    /\ activeTab \in DOMAIN monthlyBonuses =>
          normalizeBonus(monthlyBonuses[activeTab]) = activeBonus(World)

\* the document left on the view of February was loaded, and the user then
\* selected January
C27_JanuaryAfterLoad ==
  /\ session = "u1" /\ syncReady /\ edits = 1
  /\ remote["u1"] = Row(OldDoc)
  /\ "Feb" \in DOMAIN variableExpensesByMonth
  /\ activeTab = "Jan" /\ activeMonth = "Jan"

(***************************************************************************)
(* The amounts that are stored (C28).                                      *)
(***************************************************************************)
\* the text has only digits and at most one decimal point
IsAmountText(text) ==
  /\ \A i \in 1..Len(text) : IsDigit(text[i]) \/ text[i] = "."
  /\ Cardinality({i \in 1..Len(text) : text[i] = "."}) <= 1

\* C28 as stated: the sanitised text of whatever is typed has only digits
\* and at most one decimal point, and every stored base amount is a number
\* greater than or equal to 0.
C28_AmountsAreNumbers ==
  /\ \A v \in TypedAmounts : IsAmountText(sanitizeAmountInput(v))
  /\ \A e \in EntriesOf(Persisted) : e.amountBaseUsd # NaN /\ e.amountBaseUsd >= 0

(***************************************************************************)
(* The frame of the list handlers (C29).                                   *)
(***************************************************************************)
\* one entry with amount 0 and an id of its own was appended
Appended(old, new) ==
  /\ Len(new) = Len(old) + 1
  /\ SubSeq(new, 1, Len(old)) = old
  /\ new[Len(new)].amountBaseUsd = 0 /\ new[Len(new)].amountInput = <<"0">>
  /\ new[Len(new)].id \notin ItemIds(old)

\* one entry was removed and the others are as and where they were
Removed(old, new) ==
  /\ Len(new) = Len(old) - 1
  /\ \E k \in 1..Len(old) : new = SubSeq(old, 1, k - 1) \o SubSeq(old, k + 1, Len(old))

\* the name, or the amount and its text, of one entry changed; its id and
\* every other entry are as they were
ChangedOne(old, new) ==
  /\ Len(new) = Len(old)
  /\ \E k \in 1..Len(old) :
       /\ new[k].id = old[k].id
       /\ new[k].name = old[k].name \/ ( /\ new[k].amountBaseUsd = old[k].amountBaseUsd
                                          /\ new[k].amountInput = old[k].amountInput )
       /\ \A j \in 1..Len(old) : j # k => new[j] = old[j]

OneEntryChanged(old, new) ==
  new = old \/ Appended(old, new) \/ Removed(old, new) \/ ChangedOne(old, new)

\* C29: a handler of a list appends one entry with amount 0, or removes,
\* renames or changes the amount of one entry, and leaves every other entry
\* of the list, the other lists, the bonuses and the variable expenses of
\* the other months as they were.
C29_OneEntryChanges ==
  [][ EditInPlace =>
        /\ Cardinality({f \in RefFields : World'[f] # World[f]}) <= 1
        /\ OneEntryChanged(incomes, incomes')
        /\ OneEntryChanged(fixedExpenses, fixedExpenses')
        /\ DOMAIN variableExpensesByMonth \subseteq DOMAIN variableExpensesByMonth'
        /\ \A m \in DOMAIN variableExpensesByMonth' :
             IF m = activeTab
             THEN OneEntryChanged(ItemsOf(variableExpensesByMonth, m),
                                  variableExpensesByMonth'[m])
             ELSE /\ m \in DOMAIN variableExpensesByMonth
                  /\ variableExpensesByMonth'[m] = variableExpensesByMonth[m] ]_vars

\* the first income was renamed and an income was added: the second income
\* is as it was saved and the new one is the third, with amount 0
C29_RenamedAndAdded ==
  /\ edits = 2 /\ Len(incomes) = 3
  /\ incomes[1].id = "income-1" /\ incomes[1].name = "Salary"
  /\ incomes[1].amountBaseUsd = 1872
  /\ incomes[2].id = "income-2" /\ incomes[2].name = "Side gig"
  /\ incomes[3].amountBaseUsd = 0
  /\ Len(fixedExpenses) = 2 /\ fixedExpenses[1].amountBaseUsd = 39
  /\ DOMAIN variableExpensesByMonth = monthTabs

(***************************************************************************)
(* The Auth component (src/src/components/Auth.tsx): the panel to set a    *)
(* new password, shown in recovery mode, and the sign-out button.          *)
(***************************************************************************)
\* what the user types into a password field: five characters, six, and six
\* others
Passwords ==
  { <<"s", "e", "c", "r", "e">>,
    <<"s", "e", "c", "r", "e", "t">>,
    <<"S", "E", "C", "R", "E", "T">> }

\* the useState of Auth as they stand
Form ==
  [newPassword |-> newPassword, confirmPassword |-> confirmPassword,
   message |-> message, authError |-> authError, working |-> working,
   authRequest |-> authRequest]

\* the handler leaves the form f
SetForm(f) ==
  /\ newPassword' = f.newPassword
  /\ confirmPassword' = f.confirmPassword
  /\ message' = f.message
  /\ authError' = f.authError
  /\ working' = f.working
  /\ authRequest' = f.authRequest

\* what no handler of Auth touches before its request is answered
AppUnchanged ==
  UNCHANGED << incomes, fixedExpenses, monthlyBonuses, variableExpensesByMonth,
               currencyCode, period, activeTab, activeMonth,
               showIncomePanel, showFixedExpensesPanel, locale,
               session, isRecovery, authLoading, syncStatus, syncError, syncReady,
               pendingSyncRef, skipNextSyncRef, previousSessionRef,
               localStorage, timers, loads, now, isSupabaseConfigured,
               remote, writes, issued, lastIssued, edits, auths >>

\* the panel of the recovery mode is rendered
recoveryPanelShown == isSupabaseConfigured /\ ~authLoading /\ isRecovery

\* the panel of the signed-in user is rendered
sessionPanelShown ==
  isSupabaseConfigured /\ ~authLoading /\ ~isRecovery /\ session # NoSession

\* handlePasswordUpdate as it would be without the comparison with the
\* confirmation
handlePasswordUpdateUnconfirmed(f, loc) ==
  IF Len(f.newPassword) < 6
  THEN [f EXCEPT !.message = "", !.authError = Translate(loc, "passwordTooShort"),
                 !.working = FALSE]
  ELSE [f EXCEPT !.message = "", !.authError = "", !.working = TRUE,
                 !.authRequest = [kind |-> "updateUser", password |-> f.newPassword]]

\* handlePasswordUpdate up to its await, in the locale loc
handlePasswordUpdate(f, loc) ==
  IF Len(f.newPassword) < 6
  THEN [f EXCEPT !.message = "", !.authError = Translate(loc, "passwordTooShort"),
                 !.working = FALSE]
  ELSE IF f.newPassword # f.confirmPassword
  THEN [f EXCEPT !.message = "", !.authError = Translate(loc, "passwordMismatch"),
                 !.working = FALSE]
  ELSE [f EXCEPT !.message = "", !.authError = "", !.working = TRUE,
                 !.authRequest = [kind |-> "updateUser", password |-> f.newPassword]]

\* the rest of handlePasswordUpdate, after updateUser has answered
afterUpdateUser(failed, f, loc) ==
  IF failed
  THEN [f EXCEPT !.authError = "update failed", !.working = FALSE,
                 !.authRequest = NoRequest]
  ELSE [f EXCEPT !.message = Translate(loc, "passwordUpdated"),
                 !.newPassword = <<>>, !.confirmPassword = <<>>,
                 !.working = FALSE, !.authRequest = NoRequest]

\* handleSignOut up to its await
handleSignOut(f) ==
  [f EXCEPT !.message = "", !.authError = "", !.working = TRUE,
            !.authRequest = [kind |-> "signOut"]]

\* the rest of handleSignOut
afterSignOut(failed, f) ==
  [f EXCEPT !.authError = IF failed THEN "sign-out failed" ELSE @,
            !.working = FALSE, !.authRequest = NoRequest]

\* onChange of the two password fields
TypeNewPassword(value) ==
  /\ recoveryPanelShown
  /\ SetForm([Form EXCEPT !.newPassword = value])
  /\ AppUnchanged

TypeConfirmPassword(value) ==
  /\ recoveryPanelShown
  /\ SetForm([Form EXCEPT !.confirmPassword = value])
  /\ AppUnchanged

\* onClick of the button that sets the password, which is disabled while
\* working or while a field is empty
PasswordUpdateClicked ==
  /\ recoveryPanelShown
  /\ ~working /\ newPassword # <<>> /\ confirmPassword # <<>>
  /\ SetForm(handlePasswordUpdate(Form, locale))
  /\ AppUnchanged

\* updateUser answers: on success onRecoveryComplete() ends the recovery mode
UpdateUserCompletes(failed) ==
  /\ authRequest.kind = "updateUser"
  /\ SetForm(afterUpdateUser(failed, Form, locale))
  /\ Commit(IF failed THEN World ELSE [World EXCEPT !.isRecovery = FALSE])
  /\ BackendUnchanged
  /\ UNCHANGED <<isSupabaseConfigured, edits, auths>>

\* onClick of the sign-out button of the recovery panel and of the panel of
\* the signed-in user
SignOutClicked ==
  /\ recoveryPanelShown \/ sessionPanelShown
  /\ ~working
  /\ SetForm(handleSignOut(Form))
  /\ AppUnchanged

\* signOut answers: with an error, or after the SIGNED_OUT event was delivered
SignOutCompletes(failed) ==
  /\ authRequest.kind = "signOut"
  /\ failed \/ session = NoSession
  /\ SetForm(afterSignOut(failed, Form))
  /\ AppUnchanged

\* the user follows the link of a recovery mail: the event comes with the
\* session of the user
PasswordRecovery(u) ==
  /\ session \in {NoSession, u}
  /\ OnAuthStateChange("PASSWORD_RECOVERY", u)

\* the tasks of authentication and synchronisation, and the panels of Auth
NextRecovery ==
  \/ SyncNext
  \/ \E u \in Users : PasswordRecovery(u)
  \/ \E value \in Passwords : TypeNewPassword(value)
  \/ \E value \in Passwords : TypeConfirmPassword(value)
  \/ PasswordUpdateClicked
  \/ \E failed \in BOOLEAN : UpdateUserCompletes(failed)
  \/ SignOutClicked
  \/ \E failed \in BOOLEAN : SignOutCompletes(failed)

SpecRecovery == Init /\ [][NextRecovery]_vars

(***************************************************************************)
(* The recovery mode (C30).                                                *)
(***************************************************************************)
\* the button that sets the password can be clicked and the handler will
\* reject what the fields hold
Rejectable ==
  /\ recoveryPanelShown
  /\ ~working /\ newPassword # <<>> /\ confirmPassword # <<>>
  /\ Len(newPassword) < 6 \/ newPassword # confirmPassword

\* the error the form has to show for what the fields hold
RejectionText ==
  IF Len(newPassword) < 6 THEN Translate(locale, "passwordTooShort")
  ELSE Translate(locale, "passwordMismatch")

\* the button that sets the password is clicked in this step: the form
\* changes while no field is typed into and no sign-out is requested
PasswordSubmitted ==
  /\ authRequest = NoRequest
  /\ authVars' # authVars
  /\ newPassword' = newPassword /\ confirmPassword' = confirmPassword
  /\ authRequest'.kind # "signOut"

\* a request of Auth is answered in this step
RequestAnswered == authRequest # NoRequest /\ authRequest' = NoRequest

\* C30: a new password of fewer than 6 characters, or one that differs from
\* its confirmation, is rejected with no request to the backend: the error
\* is shown, the recovery mode stays on and the form is enabled.  The
\* recovery mode begins with an auth event and ends only when updateUser
\* has succeeded or the user is signed out, and the form is enabled after
\* every answer.
C30_RecoveryMode ==
  /\ [][ /\ (Rejectable /\ PasswordSubmitted) =>
              /\ authRequest' = NoRequest
              /\ authError' = RejectionText /\ authError' # ""
              /\ message' = ""
              /\ isRecovery' /\ ~working'
              /\ session' = session
         /\ (isRecovery /\ ~isRecovery') =>
              \/ session # NoSession /\ session' = NoSession
              \/ /\ authRequest.kind = "updateUser" /\ RequestAnswered
                 /\ message' = Translate(locale, "passwordUpdated")
                 /\ authError' = authError
         /\ (~isRecovery /\ isRecovery') => (auths' = auths + 1 /\ session' # NoSession)
         /\ RequestAnswered => ~working' ]_vars
  /\ [](Rejectable =>
          /\ handlePasswordUpdate(Form, locale).authRequest = NoRequest
          /\ handlePasswordUpdate(Form, locale).authError = RejectionText
          /\ ~handlePasswordUpdate(Form, locale).working)
  /\ [](working <=> authRequest # NoRequest)

\* in recovery mode a password of six characters was submitted with a
\* confirmation that differs: the mismatch is shown, nothing was sent, the
\* recovery mode is on and the form is enabled
C30_MismatchRejected ==
  /\ isRecovery /\ session = "u1" /\ ~authLoading
  /\ newPassword = <<"s", "e", "c", "r", "e", "t">>
  /\ confirmPassword = <<"S", "E", "C", "R", "E", "T">>
  /\ authError = Translate(locale, "passwordMismatch")
  /\ message = ""
  /\ ~working /\ authRequest = NoRequest

====
